---- MODULE Spec2Model ----
(***************************************************************************)
(* Model of banani-nani: the Screen patch reducer (src/lib/applyPatch.ts), *)
(* the zod schemas that guard its inputs (src/lib/screenSchema.ts) and the *)
(* streaming turn that replays patches on the client (app page).           *)
(*                                                                         *)
(* Representation                                                          *)
(*   string used as an id      a tuple of one-character strings, so that   *)
(*                             the ComponentId regex is computed            *)
(*   other strings             TLA+ strings (only their length matters)    *)
(*   optional field            <<>> (absent) or <<v>> (present)            *)
(*   JS number                 [t |-> "num" | "NaN" | "inf", v |-> Int]    *)
(*   JS plain object           a function; DOMAIN = the own keys           *)
(*   JS array                  a sequence                                  *)
(***************************************************************************)
EXTENDS Integers, Sequences, FiniteSets, TLC

VARIABLES
    pc,         \* position of the reducer harness: "input", "applied", "twice"
    prev,       \* the Screen passed to applyPatch
    patch,      \* the Patch passed to applyPatch
    out,        \* applyPatch(prev, patch)
    prevAfter,  \* the object passed as prev, as it is in memory after the call
    out2,       \* applyPatch(out, patch)
    agent,      \* the agent of the turn: how it ends, and its trailing free text
    srvPhase,   \* the session: "off", "accepted", "streaming", "finalizing", "terminal"
    srvScreen,  \* the session's running Screen
    srvLog,     \* the running Screen after each accepted operation (history)
    srvSummary, \* the session's finalSummary slot: None or Some(text)
    accepted,   \* the operations the session accepted, as Patches, in order (history)
    emitted,    \* the events the session emitted, in order (history)
    stream,     \* the events sent and not yet handled by the client, in order
    cliPhase,   \* the client's turn: "off", "streaming", "failed", "ended"
    cliScreen,  \* the client's screen state: None (null) or Some(Screen)
    cliApplied, \* the number of patch events the client has applied (history)
    cliMessages, \* the assistant messages the client appended in this turn
    cliFinal,   \* the snapshot of the last final event the client accepted (history)
    route,      \* one call of the JSON route handler POST: its inputs, position, responses
    render,     \* one call of a preview renderer: the Screen, the selection, the document
    page,       \* the page component: loading, messages, screen and the turns in flight
    sse         \* one response body read by consumeGenerateStream: chunks, buffer, events

reducerVars == <<pc, prev, patch, out, prevAfter, out2>>
srvVars == <<agent, srvPhase, srvScreen, srvLog, srvSummary, accepted, emitted>>
cliVars == <<cliPhase, cliScreen, cliApplied, cliMessages, cliFinal>>
turnVars == <<srvVars, stream, cliVars>>
auxVars == <<route, render, page, sse>>
vars == <<reducerVars, turnVars, auxVars>>

(***************************************************************************)
(* Small helpers                                                           *)
(***************************************************************************)
None == <<>>
Some(x) == <<x>>

Min(x, y) == IF x <= y THEN x ELSE y
Max(x, y) == IF x >= y THEN x ELSE y

Range(s) == {s[i] : i \in 1..Len(s)}

SeqsUpTo(S, n) == UNION {[1..k -> S] : k \in 0..n}

Num(n) == [t |-> "num", v |-> n]
NaN == [t |-> "NaN", v |-> 0]
PosInf == [t |-> "inf", v |-> 1]
NegInf == [t |-> "inf", v |-> -1]

(***************************************************************************)
(* screenSchema.ts                                                         *)
(***************************************************************************)
LowerAlnum ==
    {"a","b","c","d","e","f","g","h","i","j","k","l","m","n","o","p","q",
     "r","s","t","u","v","w","x","y","z","0","1","2","3","4","5","6","7",
     "8","9"}

IdMaxLen == 64
NameMaxLen == 80
HtmlMaxLen == 50000
TitleMaxLen == 120
GlobalCssMaxLen == 20000
LayoutSchemaMax == 200
SetLayoutMax == 200
UpsertMax == 50
DeleteMax == 50
LayoutPatchMax == 200

\* componentIdSchema without its regex
componentIdSchemaLengthOnly(id) == Len(id) >= 1 /\ Len(id) <= IdMaxLen

\* z.string().min(1).max(64).regex(/^[a-z0-9][a-z0-9-_]*$/)
componentIdSchema(id) ==
    /\ Len(id) >= 1
    /\ Len(id) <= IdMaxLen
    /\ id[1] \in LowerAlnum
    /\ \A i \in 2..Len(id) : id[i] \in LowerAlnum \cup {"-", "_"}

\* { id, name: 1..80, html: 1..50000 }
screenComponentSchema(c) ==
    /\ componentIdSchema(c.id)
    /\ Len(c.name) >= 1 /\ Len(c.name) <= NameMaxLen
    /\ Len(c.html) >= 1 /\ Len(c.html) <= HtmlMaxLen

\* { name: 1..80, html: 1..50000 }
storedComponentSchema(c) ==
    /\ Len(c.name) >= 1 /\ Len(c.name) <= NameMaxLen
    /\ Len(c.html) >= 1 /\ Len(c.html) <= HtmlMaxLen

titleSchema(t) == IF t = None THEN TRUE ELSE Len(t[1]) >= 1 /\ Len(t[1]) <= TitleMaxLen
globalCssSchema(g) == IF g = None THEN TRUE ELSE Len(g[1]) <= GlobalCssMaxLen

\* z.number().int().min(0)
indexSchema(n) == n.t = "num" /\ n.v >= 0

\* the object schema and its superRefine over the component keys
screenStateSchema(s) ==
    /\ titleSchema(s.title)
    /\ globalCssSchema(s.globalCss)
    /\ \A k \in DOMAIN s.components : storedComponentSchema(s.components[k])
    /\ Len(s.layout) <= LayoutSchemaMax
    /\ \A i \in 1..Len(s.layout) : componentIdSchema(s.layout[i])
    /\ \A k \in DOMAIN s.components : componentIdSchema(k)

layoutPatchOpSchema(op) ==
    CASE op.op = "insert" -> componentIdSchema(op.component_id) /\ indexSchema(op.index)
      [] op.op = "remove" -> componentIdSchema(op.component_id)
      [] op.op = "move" -> componentIdSchema(op.component_id) /\ indexSchema(op.to_index)
      [] op.op = "set" ->
            /\ Len(op.layout) <= SetLayoutMax
            /\ \A i \in 1..Len(op.layout) : componentIdSchema(op.layout[i])
      [] OTHER -> FALSE

patchSchema(p) ==
    /\ Len(p.upsert_components) <= UpsertMax
    /\ \A i \in 1..Len(p.upsert_components) : screenComponentSchema(p.upsert_components[i])
    /\ Len(p.delete_components) <= DeleteMax
    /\ \A i \in 1..Len(p.delete_components) : componentIdSchema(p.delete_components[i])
    /\ Len(p.layout_patch) <= LayoutPatchMax
    /\ \A i \in 1..Len(p.layout_patch) : layoutPatchOpSchema(p.layout_patch[i])
    /\ titleSchema(p.title)
    /\ globalCssSchema(p.globalCss)

(***************************************************************************)
(* applyPatch.ts                                                           *)
(*                                                                         *)
(* The reducer works on a memory record m:                                 *)
(*   m.next       the ScreenState under construction                       *)
(*   m.prev       the object passed as prev, as it is in memory            *)
(*   m.sameComponents  next.components is the very object prev.components   *)
(*   m.sameLayout      next.layout is the very array prev.layout            *)
(* An assignment of a fresh array/object to a field of next ends the       *)
(* aliasing; an in-place mutation (property write, delete, splice, push)   *)
(* shows through to prev while the two are the same object.                *)
(***************************************************************************)
\* Own keys of Object.prototype: what a property read on a plain object
\* finds when the key is not an own key.
ObjectPrototypeKeys ==
    { <<"c","o","n","s","t","r","u","c","t","o","r">>,
      <<"t","o","S","t","r","i","n","g">>,
      <<"v","a","l","u","e","O","f">>,
      <<"_","_","p","r","o","t","o","_","_">> }

\* Boolean(components[id]): an own entry (always an object) or an inherited property
Truthy(components, id) == id \in DOMAIN components \/ id \in ObjectPrototypeKeys

\* components[id] = value, in place
WriteComponent(m, id, value) ==
    LET comps == [k \in DOMAIN m.next.components \cup {id} |->
                     IF k = id THEN value ELSE m.next.components[k]]
    IN [m EXCEPT !.next.components = comps,
                 !.prev.components = IF m.sameComponents THEN comps ELSE @]

\* delete components[id], in place
DeleteComponent(m, id) ==
    LET comps == [k \in DOMAIN m.next.components \ {id} |-> m.next.components[k]]
    IN [m EXCEPT !.next.components = comps,
                 !.prev.components = IF m.sameComponents THEN comps ELSE @]

\* next.layout = <a fresh array>
AssignLayout(m, layout) == [m EXCEPT !.next.layout = layout, !.sameLayout = FALSE]

\* next.layout.splice(idx, 0, id), in place
SpliceLayout(m, idx, id) ==
    LET l == m.next.layout
        start == IF idx < 0 THEN Max(Len(l) + idx, 0) ELSE Min(idx, Len(l))
        r == SubSeq(l, 1, start) \o <<id>> \o SubSeq(l, start + 1, Len(l))
    IN [m EXCEPT !.next.layout = r, !.prev.layout = IF m.sameLayout THEN r ELSE @]

\* next.layout.push(id), in place
PushLayout(m, id) ==
    LET r == Append(m.next.layout, id)
    IN [m EXCEPT !.next.layout = r, !.prev.layout = IF m.sameLayout THEN r ELSE @]

\* uniqKeepOrder keeping the last occurrence of an id instead of the first
uniqKeepLast(ids) ==
    LET at == [i \in 1..Len(ids) |-> [i |-> i, id |-> ids[i]]]
        kept == SelectSeq(at, LAMBDA e : \A j \in (e.i + 1)..Len(ids) : ids[j] # e.id)
    IN [k \in 1..Len(kept) |-> kept[k].id]

\* The loop keeps ids[i] exactly when seen does not hold it yet, that is when
\* no earlier position holds the same id (written without recursion: layouts
\* are up to LayoutMax long).
uniqKeepOrder(ids) ==
    LET at == [i \in 1..Len(ids) |-> [i |-> i, id |-> ids[i]]]
        kept == SelectSeq(at, LAMBDA e : \A j \in 1..(e.i - 1) : ids[j] # e.id)
    IN [k \in 1..Len(kept) |-> kept[k].id]

\* clampIndex sending NaN and the infinities to the front
clampIndexNonFiniteFront(index, length) ==
    IF index.t = "NaN" \/ index.t = "inf" THEN 0
    ELSE Max(0, Min(index.v, length))

\* clampIndex with the upper limit one too low
clampIndexOffByOne(index, length) ==
    IF index.t = "NaN" \/ index.t = "inf" THEN length
    ELSE Max(0, Min(index.v, length - 1))

clampIndex(index, length) ==
    IF index.t = "NaN" \/ index.t = "inf" THEN length
    ELSE Max(0, Min(index.v, length))

removeAll(layout, componentId) == SelectSeq(layout, LAMBDA id : id # componentId)

LayoutMax == 200

\* .slice(0, n)
Slice0(s, n) == SubSeq(s, 1, Min(n, Len(s)))

\* normalizeLayout without its .slice(0, 200)
normalizeLayoutNoSlice(m) ==
    [m EXCEPT !.next.layout =
        SelectSeq(uniqKeepOrder(m.next.layout), LAMBDA id : Truthy(m.next.components, id)),
        !.sameLayout = FALSE]

normalizeLayout(m) ==
    [m EXCEPT !.next.layout =
        Slice0(SelectSeq(uniqKeepOrder(m.next.layout),
                         LAMBDA id : Truthy(m.next.components, id)),
               LayoutMax),
        !.sameLayout = FALSE]

\* returns the memory and the Set newlyAddedComponentIds (in insertion order)
RECURSIVE upsertLoop(_, _, _, _, _)
upsertLoop(m, comps, i, prevComponentIds, newly) ==
    IF i > Len(comps) THEN [m |-> m, newlyAddedComponentIds |-> newly]
    ELSE LET comp == comps[i]
             m1 == WriteComponent(m, comp.id, [name |-> comp.name, html |-> comp.html])
         IN upsertLoop(m1, comps, i + 1, prevComponentIds,
                       IF comp.id \notin prevComponentIds /\ comp.id \notin Range(newly)
                       THEN Append(newly, comp.id) ELSE newly)

\* applyUpserts with the test on prevComponentIds inverted
RECURSIVE upsertLoopInverted(_, _, _, _, _)
upsertLoopInverted(m, comps, i, prevComponentIds, newly) ==
    IF i > Len(comps) THEN [m |-> m, newlyAddedComponentIds |-> newly]
    ELSE LET comp == comps[i]
             m1 == WriteComponent(m, comp.id, [name |-> comp.name, html |-> comp.html])
         IN upsertLoopInverted(m1, comps, i + 1, prevComponentIds,
                       IF comp.id \in prevComponentIds /\ comp.id \notin Range(newly)
                       THEN Append(newly, comp.id) ELSE newly)

applyUpsertsInverted(m, p, prevComponentIds) ==
    upsertLoopInverted(m, p.upsert_components, 1, prevComponentIds, <<>>)

applyUpserts(m, p, prevComponentIds) ==
    upsertLoop(m, p.upsert_components, 1, prevComponentIds, <<>>)

RECURSIVE deleteLoop(_, _, _)
deleteLoop(m, ids, i) ==
    IF i > Len(ids) THEN m
    ELSE LET m1 == DeleteComponent(m, ids[i])
         IN deleteLoop(AssignLayout(m1, removeAll(m1.next.layout, ids[i])), ids, i + 1)

\* applyDeletes stripping the layout only (the delete of components[id] left out)
RECURSIVE stripLoop(_, _, _)
stripLoop(m, ids, i) ==
    IF i > Len(ids) THEN m
    ELSE stripLoop(AssignLayout(m, removeAll(m.next.layout, ids[i])), ids, i + 1)

applyDeletesLayoutOnly(m, p) == stripLoop(m, p.delete_components, 1)

applyDeletes(m, p) == deleteLoop(m, p.delete_components, 1)

\* applyLayoutOp whose insert counts the index from the place the id has
RECURSIVE PlaceOf(_, _)
PlaceOf(layout, id) ==
    IF layout = <<>> \/ Head(layout) = id THEN 0 ELSE 1 + PlaceOf(Tail(layout), id)

applyLayoutOpInsertRelative(m, op) ==
    CASE op.op = "set" ->
            AssignLayout(m, SelectSeq(op.layout, LAMBDA id : Truthy(m.next.components, id)))
      [] op.op = "remove" ->
            AssignLayout(m, removeAll(m.next.layout, op.component_id))
      [] op.op = "insert" ->
            IF ~Truthy(m.next.components, op.component_id) THEN m
            ELSE LET from == IF op.component_id \in Range(m.next.layout)
                             THEN PlaceOf(m.next.layout, op.component_id) ELSE 0
                     m1 == AssignLayout(m, removeAll(m.next.layout, op.component_id))
                 IN SpliceLayout(m1, clampIndex([op.index EXCEPT !.v = @ + from],
                                                Len(m1.next.layout)),
                                 op.component_id)
      [] op.op = "move" ->
            IF ~Truthy(m.next.components, op.component_id) THEN m
            ELSE IF op.component_id \notin Range(m.next.layout) THEN m
            ELSE LET m1 == AssignLayout(m, removeAll(m.next.layout, op.component_id))
                 IN SpliceLayout(m1, clampIndex(op.to_index, Len(m1.next.layout)),
                                 op.component_id)
      [] OTHER -> m

\* applyLayoutOp whose move lacks the test that the layout includes the id
applyLayoutOpMoveInserts(m, op) ==
    CASE op.op = "set" ->
            AssignLayout(m, SelectSeq(op.layout, LAMBDA id : Truthy(m.next.components, id)))
      [] op.op = "remove" ->
            AssignLayout(m, removeAll(m.next.layout, op.component_id))
      [] op.op = "insert" ->
            IF ~Truthy(m.next.components, op.component_id) THEN m
            ELSE LET m1 == AssignLayout(m, removeAll(m.next.layout, op.component_id))
                 IN SpliceLayout(m1, clampIndex(op.index, Len(m1.next.layout)),
                                 op.component_id)
      [] op.op = "move" ->
            IF ~Truthy(m.next.components, op.component_id) THEN m
            ELSE LET m1 == AssignLayout(m, removeAll(m.next.layout, op.component_id))
                 IN SpliceLayout(m1, clampIndex(op.to_index, Len(m1.next.layout)),
                                 op.component_id)
      [] OTHER -> m

\* applyLayoutOp whose set adds its list behind the layout there is
applyLayoutOpSetMerges(m, op) ==
    CASE op.op = "set" ->
            AssignLayout(m, m.next.layout
                            \o SelectSeq(op.layout, LAMBDA id : Truthy(m.next.components, id)))
      [] op.op = "remove" ->
            AssignLayout(m, removeAll(m.next.layout, op.component_id))
      [] op.op = "insert" ->
            IF ~Truthy(m.next.components, op.component_id) THEN m
            ELSE LET m1 == AssignLayout(m, removeAll(m.next.layout, op.component_id))
                 IN SpliceLayout(m1, clampIndex(op.index, Len(m1.next.layout)),
                                 op.component_id)
      [] op.op = "move" ->
            IF ~Truthy(m.next.components, op.component_id) THEN m
            ELSE IF op.component_id \notin Range(m.next.layout) THEN m
            ELSE LET m1 == AssignLayout(m, removeAll(m.next.layout, op.component_id))
                 IN SpliceLayout(m1, clampIndex(op.to_index, Len(m1.next.layout)),
                                 op.component_id)
      [] OTHER -> m

\* applyLayoutOp whose remove also deletes the stored component
applyLayoutOpRemoveDeletes(m, op) ==
    CASE op.op = "set" ->
            AssignLayout(m, SelectSeq(op.layout, LAMBDA id : Truthy(m.next.components, id)))
      [] op.op = "remove" ->
            LET m1 == DeleteComponent(m, op.component_id)
            IN AssignLayout(m1, removeAll(m1.next.layout, op.component_id))
      [] op.op = "insert" ->
            IF ~Truthy(m.next.components, op.component_id) THEN m
            ELSE LET m1 == AssignLayout(m, removeAll(m.next.layout, op.component_id))
                 IN SpliceLayout(m1, clampIndex(op.index, Len(m1.next.layout)),
                                 op.component_id)
      [] op.op = "move" ->
            IF ~Truthy(m.next.components, op.component_id) THEN m
            ELSE IF op.component_id \notin Range(m.next.layout) THEN m
            ELSE LET m1 == AssignLayout(m, removeAll(m.next.layout, op.component_id))
                 IN SpliceLayout(m1, clampIndex(op.to_index, Len(m1.next.layout)),
                                 op.component_id)
      [] OTHER -> m

applyLayoutOp(m, op) ==
    CASE op.op = "set" ->
            AssignLayout(m, SelectSeq(op.layout, LAMBDA id : Truthy(m.next.components, id)))
      [] op.op = "remove" ->
            AssignLayout(m, removeAll(m.next.layout, op.component_id))
      [] op.op = "insert" ->
            IF ~Truthy(m.next.components, op.component_id) THEN m
            ELSE LET m1 == AssignLayout(m, removeAll(m.next.layout, op.component_id))
                 IN SpliceLayout(m1, clampIndex(op.index, Len(m1.next.layout)),
                                 op.component_id)
      [] op.op = "move" ->
            IF ~Truthy(m.next.components, op.component_id) THEN m
            ELSE IF op.component_id \notin Range(m.next.layout) THEN m
            ELSE LET m1 == AssignLayout(m, removeAll(m.next.layout, op.component_id))
                 IN SpliceLayout(m1, clampIndex(op.to_index, Len(m1.next.layout)),
                                 op.component_id)
      [] OTHER -> m

RECURSIVE layoutOpsLoop(_, _, _)
layoutOpsLoop(m, ops, i) ==
    IF i > Len(ops) THEN m ELSE layoutOpsLoop(applyLayoutOp(m, ops[i]), ops, i + 1)

\* applyLayoutOps going through the ops from the last to the first
applyLayoutOpsReversed(m, p) ==
    layoutOpsLoop(m, [i \in 1..Len(p.layout_patch) |->
                         p.layout_patch[Len(p.layout_patch) + 1 - i]], 1)

applyLayoutOps(m, p) == layoutOpsLoop(m, p.layout_patch, 1)

RECURSIVE appendLoop(_, _, _)
appendLoop(m, newlyAddedIds, i) ==
    IF i > Len(newlyAddedIds) THEN m
    ELSE LET id == newlyAddedIds[i]
         IN IF ~Truthy(m.next.components, id) THEN appendLoop(m, newlyAddedIds, i + 1)
            ELSE IF id \in Range(m.next.layout) THEN appendLoop(m, newlyAddedIds, i + 1)
            ELSE appendLoop(PushLayout(m, id), newlyAddedIds, i + 1)

\* appendNewComponentsToLayout putting the new ids in front (unshift for push)
RECURSIVE prependLoop(_, _, _)
prependLoop(m, newlyAddedIds, i) ==
    IF i > Len(newlyAddedIds) THEN m
    ELSE LET id == newlyAddedIds[i]
         IN IF ~Truthy(m.next.components, id) THEN prependLoop(m, newlyAddedIds, i + 1)
            ELSE IF id \in Range(m.next.layout) THEN prependLoop(m, newlyAddedIds, i + 1)
            ELSE prependLoop(SpliceLayout(m, 0, id), newlyAddedIds, i + 1)

prependNewComponentsToLayout(m, newlyAddedIds) ==
    IF Len(newlyAddedIds) = 0 THEN m ELSE prependLoop(m, newlyAddedIds, 1)

\* appendNewComponentsToLayout going through the new ids from the last to the first
appendNewComponentsReversed(m, newlyAddedIds) ==
    IF Len(newlyAddedIds) = 0 THEN m
    ELSE appendLoop(m, [i \in 1..Len(newlyAddedIds) |->
                           newlyAddedIds[Len(newlyAddedIds) + 1 - i]], 1)

appendNewComponentsToLayout(m, newlyAddedIds) ==
    IF Len(newlyAddedIds) = 0 THEN m ELSE appendLoop(m, newlyAddedIds, 1)

\* NewNext taking title and globalCss from the patch alone (no ?? prev.title)
NewNextOverwrite(pv, p) ==
    [next |-> [title |-> p.title,
               globalCss |-> p.globalCss,
               components |-> pv.components,
               layout |-> pv.layout],
     prev |-> pv,
     sameComponents |-> FALSE,
     sameLayout |-> FALSE]

\* NewNext with || for ??: an empty string of the patch falls back to prev's value
NewNextTruthy(pv, p) ==
    [next |-> [title |-> IF p.title # None /\ p.title # Some("") THEN p.title ELSE pv.title,
               globalCss |-> IF p.globalCss # None /\ p.globalCss # Some("")
                             THEN p.globalCss ELSE pv.globalCss,
               components |-> pv.components,
               layout |-> pv.layout],
     prev |-> pv,
     sameComponents |-> FALSE,
     sameLayout |-> FALSE]

\* NewNext without the copies: components: prev.components, layout: prev.layout
NewNextShared(pv, p) ==
    [next |-> [title |-> IF p.title # None THEN p.title ELSE pv.title,
               globalCss |-> IF p.globalCss # None THEN p.globalCss ELSE pv.globalCss,
               components |-> pv.components,
               layout |-> pv.layout],
     prev |-> pv,
     sameComponents |-> TRUE,
     sameLayout |-> TRUE]

\* const next = { title: patch.title ?? prev.title, ..., components: {...prev.components},
\*                layout: [...prev.layout] }
NewNext(pv, p) ==
    [next |-> [title |-> IF p.title # None THEN p.title ELSE pv.title,
               globalCss |-> IF p.globalCss # None THEN p.globalCss ELSE pv.globalCss,
               components |-> pv.components,
               layout |-> pv.layout],
     prev |-> pv,
     sameComponents |-> FALSE,
     sameLayout |-> FALSE]

\* the memory before normalizeLayout
BeforeNormalize(pv, p) ==
    LET prevComponentIds == DOMAIN pv.components
        u == applyUpserts(NewNext(pv, p), p, prevComponentIds)
        m2 == applyDeletes(u.m, p)
        m3 == applyLayoutOps(m2, p)
    IN appendNewComponentsToLayout(m3, u.newlyAddedComponentIds)

applyPatchMemory(pv, p) == normalizeLayout(BeforeNormalize(pv, p))

applyPatch(pv, p) == applyPatchMemory(pv, p).next

emptyScreen == [title |-> None, globalCss |-> None, components |-> <<>>, layout |-> <<>>]

(***************************************************************************)
(* Inputs of the reducer harness                                           *)
(***************************************************************************)
idA == <<"a">>
idB == <<"b">>
idCtor == <<"c","o","n","s","t","r","u","c","t","o","r">>
idBad == <<"B">>

Ids == {idA, idB, idCtor}
RawIds == Ids \cup {idBad}

Old == [name |-> "Old", html |-> "<p>old</p>"]
Hero == [name |-> "Hero", html |-> "<div>Hi</div>"]
Nav == [name |-> "Nav", html |-> "<nav></nav>"]
Blank == [name |-> "", html |-> "<p></p>"]

MaxLayoutLen == 3   \* longest small prior layout and longest small set list
MaxUpserts == 2     \* most upsert entries in one Patch
MaxDeletes == 1     \* most delete entries in a Patch that also upserts
MaxOps == 2         \* most layout ops in one Patch
MaxSetLen == 2      \* longest set list in a Patch of several parts

Entry(id, c) == [id |-> id, name |-> c.name, html |-> c.html]

RawUpsertEntries ==
    {Entry(id, Hero) : id \in RawIds} \cup {Entry(idA, Nav), Entry(idB, Blank)}

RawIndexes == {Num(0), Num(1), Num(9999), Num(-1), NaN}

RawLayoutOps(n) ==
    {[op |-> "insert", component_id |-> id, index |-> x] : id \in RawIds, x \in RawIndexes}
    \cup {[op |-> "remove", component_id |-> id] : id \in RawIds}
    \cup {[op |-> "move", component_id |-> id, to_index |-> x] : id \in RawIds, x \in RawIndexes}
    \cup {[op |-> "set", layout |-> l] : l \in SeqsUpTo(RawIds, n)}

UpsertEntries == {e \in RawUpsertEntries : screenComponentSchema(e)}
LayoutOps(n) == {op \in RawLayoutOps(n) : layoutPatchOpSchema(op)}

MkPatch(u, d, o) ==
    [upsert_components |-> u, delete_components |-> d, layout_patch |-> o,
     title |-> None, globalCss |-> None]

MkScreen(c, l) == [title |-> None, globalCss |-> None, components |-> c, layout |-> l]

\* Screens as a request or a final event may carry them: whatever the schema accepts
SchemaScreens ==
    {s \in {MkScreen([k \in C |-> Old], l) : C \in SUBSET RawIds, l \in SeqsUpTo(RawIds, MaxLayoutLen)} :
        screenStateSchema(s)}

NoDangling(s) == \A i \in 1..Len(s.layout) : s.layout[i] \in DOMAIN s.components
NoDuplicates(s) == \A i, j \in 1..Len(s.layout) : s.layout[i] = s.layout[j] => i = j
AtMostMax(s) == Len(s.layout) <= LayoutMax
\* the ComponentId format as the data model states it
IdChar == LowerAlnum \cup {"-", "_"}
WellFormedId(id) == Len(id) \in 1..64 /\ id[1] \in LowerAlnum /\ Range(id) \subseteq IdChar
WellFormedKeys(s) == \A k \in DOMAIN s.components : WellFormedId(k)

\* the four invariants of a Screen
ValidScreen(s) == NoDangling(s) /\ NoDuplicates(s) /\ AtMostMax(s) /\ WellFormedKeys(s)

ValidScreens == {s \in SchemaScreens : ValidScreen(s)}

\* Patches of at most one entry in all
UnitPatches ==
    {MkPatch(<<>>, <<>>, <<>>)}
    \cup {MkPatch(<<e>>, <<>>, <<>>) : e \in UpsertEntries}
    \cup {MkPatch(<<>>, <<id>>, <<>>) : id \in Ids}
    \cup {MkPatch(<<>>, <<>>, <<op>>) : op \in LayoutOps(MaxLayoutLen)}

\* ids c1, c2, ... for layouts at the 200-entry limit
DigitChars == <<"0","1","2","3","4","5","6","7","8","9">>

RECURSIVE Digits(_)
Digits(n) == IF n < 10 THEN <<DigitChars[n + 1]>> ELSE Digits(n \div 10) \o <<DigitChars[(n % 10) + 1]>>

BigId(i) == <<"c">> \o Digits(i)

\* a valid Screen whose layout holds the first n of LayoutMax stored components
BigScreen(n, extra) ==
    MkScreen([k \in {BigId(i) : i \in 1..LayoutMax} \cup extra |-> Old], [i \in 1..n |-> BigId(i)])

BigSlack == 1       \* the layouts near the limit hold LayoutMax - BigSlack .. LayoutMax entries

BigScreens == {BigScreen(n, x) : n \in (LayoutMax - BigSlack)..LayoutMax, x \in SUBSET {idA}}

BigPatches ==
    UnitPatches
    \cup {MkPatch(<<Entry(x, Hero), Entry(y, Hero)>>, d, <<>>) :
             x \in Ids, y \in Ids, d \in SeqsUpTo({idA, BigId(2)}, 1)}
    \cup {MkPatch(u, <<>>, <<op>>) :
             u \in SeqsUpTo({Entry(idB, Hero)}, 1),
             op \in {[op |-> "insert", component_id |-> id, index |-> x] :
                        id \in {BigId(1), BigId(LayoutMax), idCtor}, x \in {Num(0), Num(LayoutMax), Num(9999)}}
                    \cup {[op |-> "move", component_id |-> BigId(1), to_index |-> Num(9999)],
                          [op |-> "remove", component_id |-> BigId(3)],
                          [op |-> "set", layout |-> <<BigId(2), BigId(1)>>]}}
    \cup {MkPatch(<<>>, <<>>, <<[op |-> "insert", component_id |-> idA, index |-> Num(0)],
                               [op |-> "remove", component_id |-> id]>>) :
             id \in {idA, BigId(1)}}

\* title and globalCss of a prior Screen and of a Patch
PrevTitles == {None, Some("Old title")}
PrevCss == {None, Some("body{}")}
RawPatchTitles == {None, Some("New title"), Some("")}
RawPatchCss == {None, Some("p{}"), Some("")}

MetaScreens ==
    {[s EXCEPT !.title = t, !.globalCss = g] :
        s \in {v \in ValidScreens : DOMAIN v.components \subseteq {idA}}, t \in PrevTitles, g \in PrevCss}

MetaPatches ==
    {[p EXCEPT !.title = t, !.globalCss = g] :
        p \in {MkPatch(<<>>, <<>>, <<>>), MkPatch(<<Entry(idA, Hero)>>, <<>>, <<>>),
               MkPatch(<<>>, <<idA>>, <<>>),
               MkPatch(<<>>, <<>>, <<[op |-> "remove", component_id |-> idA]>>)},
        t \in RawPatchTitles, g \in RawPatchCss}

\* the scenarios of the testable properties that name an index inside the layout
ScenarioPatches ==
    {MkPatch(<<>>, <<>>, <<op>>) :
        op \in {[op |-> "move", component_id |-> id, to_index |-> Num(2)] : id \in Ids}
               \cup {[op |-> "insert", component_id |-> id, index |-> Num(2)] : id \in Ids}}
    \cup {MkPatch(<<>>, <<x, y>>, <<>>) : x \in Ids, y \in Ids}
    \cup {MkPatch(<<>>, <<>>, <<[op |-> "set", layout |-> <<x, x, y>>],
                               [op |-> "insert", component_id |-> z, index |-> Num(2)]>>) :
             x \in Ids, y \in Ids, z \in Ids}

OverflowLen == 250  \* ids listed by a set op longer than the layout limit

\* a valid Screen storing OverflowLen components
OverflowScreens ==
    {MkScreen([k \in {BigId(i) : i \in 1..OverflowLen} |-> Old], l) :
        l \in {<<>>, <<BigId(OverflowLen), BigId(1)>>}}

\* set ops longer than layoutPatchOpSchema admits, as a direct caller of
\* applyPatch can pass them (its parameter type is Patch, nothing is parsed)
OverflowPatches ==
    {MkPatch(<<>>, <<>>, <<[op |-> "set", layout |-> l]>>) :
        l \in {[i \in 1..OverflowLen |-> BigId(i)],
               [i \in 1..(LayoutMax + 1) |-> BigId(LayoutMax + 2 - i)]}}

\* index values a direct caller of applyPatch can pass: the ones a parsed
\* Patch carries and the ones indexSchema turns away (negative, NaN, infinite)
DirectIndexes ==
    {Num(0), Num(1), Num(2), Num(3), Num(9999), Num(-1), Num(-7), NaN, PosInf, NegInf}

DirectIndexPatches ==
    {MkPatch(<<>>, <<>>, <<op>>) :
        op \in {[op |-> "insert", component_id |-> id, index |-> x] :
                   id \in Ids, x \in DirectIndexes}
               \cup {[op |-> "move", component_id |-> id, to_index |-> x] :
                   id \in Ids, x \in DirectIndexes}}

\* the route handler, the renderer and the page at rest
AuxOff ==
    /\ route = [pc |-> "off"]
    /\ render = [pc |-> "off"]
    /\ page = [pc |-> "off"]
    /\ sse = [pc |-> "off"]

\* the turn machine at rest (the reducer harness runs alone)
TurnOff ==
    /\ agent = [kind |-> "none", text |-> ""]
    /\ srvPhase = "off" /\ srvScreen = emptyScreen /\ srvLog = <<>> /\ srvSummary = None
    /\ accepted = <<>> /\ emitted = <<>> /\ stream = <<>>
    /\ cliPhase = "off" /\ cliScreen = None /\ cliApplied = 0
    /\ cliMessages = <<>> /\ cliFinal = None

Init ==
    /\ pc = "input"
    /\ out = emptyScreen
    /\ out2 = emptyScreen
    /\ \/ /\ prev \in SchemaScreens
          /\ patch \in UnitPatches
       \/ /\ prev \in ValidScreens
          /\ \E u \in SeqsUpTo(UpsertEntries, MaxUpserts),
                d \in SeqsUpTo(Ids, MaxDeletes),
                o \in SeqsUpTo(LayoutOps(MaxSetLen), 1) :
                patch = MkPatch(u, d, o)
       \/ /\ prev \in ValidScreens
          /\ \E o \in SeqsUpTo(LayoutOps(MaxSetLen), MaxOps) : patch = MkPatch(<<>>, <<>>, o)
       \/ /\ prev \in BigScreens
          /\ patch \in BigPatches
       \/ /\ prev \in MetaScreens
          /\ patch \in MetaPatches
       \/ /\ prev \in ValidScreens
          /\ patch \in ScenarioPatches
       \/ /\ prev \in OverflowScreens
          /\ patch \in OverflowPatches
    /\ screenStateSchema(prev) = TRUE
    /\ IF patch \in OverflowPatches THEN TRUE ELSE patchSchema(patch) = TRUE
    /\ prevAfter = prev
    /\ TurnOff
    /\ AuxOff

Apply ==
    /\ pc = "input"
    /\ pc' = "applied"
    /\ out' = applyPatch(prev, patch)
    /\ prevAfter' = applyPatchMemory(prev, patch).prev
    /\ UNCHANGED <<prev, patch, out2>>
    /\ UNCHANGED <<turnVars, auxVars>>

ApplyAgain ==
    /\ pc = "applied"
    /\ pc' = "twice"
    /\ out2' = applyPatch(out, patch)
    /\ UNCHANGED <<prev, patch, out, prevAfter>>
    /\ UNCHANGED <<turnVars, auxVars>>

\* applyPatch called directly, on a Patch that was not parsed by patchSchema
InitDirect ==
    /\ pc = "input"
    /\ out = emptyScreen
    /\ out2 = emptyScreen
    /\ prev \in ValidScreens
    /\ patch \in DirectIndexPatches
    /\ screenStateSchema(prev) = TRUE
    /\ prevAfter = prev
    /\ TurnOff
    /\ AuxOff

Next == Apply \/ ApplyAgain

Spec == Init /\ [][Next]_vars

SpecDirect == InitDirect /\ [][Next]_vars

(***************************************************************************)
(* One streaming turn. The session (the server side of the stream) accepts  *)
(* the agent's structural operations one at a time, folds each into its     *)
(* running Screen and emits the Patch, then finalizes; the client (the app  *)
(* page) handles the events in arrival order.                               *)
(***************************************************************************)
MaxSteps == 2       \* structural operations an agent that ends by itself issues

StepBudget == 25    \* the step budget of a turn
SummaryMax == 500   \* the longest summary

\* n times the character "x"
RECURSIVE Repeat(_)
Repeat(n) ==
    IF n = 0 THEN ""
    ELSE LET h == Repeat(n \div 2) IN IF n % 2 = 0 THEN h \o h ELSE h \o h \o "x"

\* s.trim()
Trim(s) ==
    LET ns == {i \in 1..Len(s) : SubSeq(s, i, i) \notin {" ", "\n", "\t", "\r"}}
    IN IF ns = {} THEN ""
       ELSE SubSeq(s, CHOOSE i \in ns : \A j \in ns : i <= j,
                      CHOOSE i \in ns : \A j \in ns : i >= j)

\* Screens a turn starts from (the request's screen), besides none at all
TurnScreens ==
    {s \in SchemaScreens :
        DOMAIN s.components \subseteq {idA} /\ Len(s.layout) <= 2 /\ Range(s.layout) \subseteq {idA, idB}}

\* the structural operations of the agent, each normalised to the Patch with
\* that one entry
ToolPatches ==
    {MkPatch(<<e>>, <<>>, <<>>) : e \in UpsertEntries}
    \cup {MkPatch(<<>>, <<id>>, <<>>) : id \in Ids}
    \cup {MkPatch(<<>>, <<>>, <<op>>) : op \in LayoutOps(1)}

\* the k-th operation (from 0) of an agent that never signals done
RunawayOp(k) == MkPatch(<<Entry(idA, IF k % 2 = 0 THEN Hero ELSE Nav)>>, <<>>, <<>>)

\* the free text an agent leaves behind when it stops without a done signal
AgentTexts == {"", "   ", "All set.", Repeat(SummaryMax + 1)}
DoneSummaries == {"Added a hero.", " "}

Agents ==
    {[kind |-> "varied", text |-> ""]} \cup {[kind |-> "runaway", text |-> t] : t \in AgentTexts}

\* JSON.stringify then JSON.parse of a number: NaN and the infinities become null
JsonNumber(n) == IF n.t = "num" THEN n ELSE [t |-> "null", v |-> 0]

JsonLayoutOp(op) ==
    CASE op.op = "insert" -> [op EXCEPT !.index = JsonNumber(@)]
      [] op.op = "move" -> [op EXCEPT !.to_index = JsonNumber(@)]
      [] OTHER -> op

\* the payload of a patch event as the client reads it
JsonPatch(p) ==
    [p EXCEPT !.layout_patch = [i \in 1..Len(p.layout_patch) |-> JsonLayoutOp(p.layout_patch[i])]]

ReadyEvent == [event |-> "ready"]
PatchEvent(p) == [event |-> "patch", patch |-> JsonPatch(p)]
FinalEvent(summary, screen) == [event |-> "final", summary |-> summary, screen |-> screen]
ErrorEvent(message) == [event |-> "error", message |-> message]

Terminal(e) == e.event \in {"final", "error"}

GenericFallback == "Done."
UpstreamFailure == "Generation failed"
ValidationFailure == "Final screen failed validation"

\* the summary of a turn that ends by its budget: the trailing free text, cut
\* to SummaryMax characters, or a generic string when there is none
FallbackSummary(text) ==
    IF text = "" THEN GenericFallback ELSE SubSeq(text, 1, Min(SummaryMax, Len(text)))

\* the session emits an event: onto the stream, and into the history
Emit(e) == stream' = Append(stream, e) /\ emitted' = Append(emitted, e)

\* a request was accepted: the request carries screen: screen ?? undefined, the
\* session starts from it, or from the empty Screen
TurnInit ==
    /\ pc = "off" /\ prev = emptyScreen /\ patch = MkPatch(<<>>, <<>>, <<>>)
    /\ out = emptyScreen /\ prevAfter = emptyScreen /\ out2 = emptyScreen
    /\ agent \in Agents
    /\ cliScreen \in {None} \cup {Some(s) : s \in TurnScreens}
    /\ IF agent.kind = "runaway" THEN cliScreen = None ELSE TRUE
    /\ srvScreen = (IF cliScreen = None THEN emptyScreen ELSE cliScreen[1])
    /\ srvLog = <<srvScreen>>
    /\ srvPhase = "accepted"
    /\ srvSummary = None
    /\ accepted = <<>>
    /\ emitted = <<>>
    /\ stream = <<>>
    /\ cliPhase = "streaming"
    /\ cliApplied = 0
    /\ cliMessages = <<>>
    /\ cliFinal = None
    /\ AuxOff

\* Ready: emitted on turn start, no state change
Ready ==
    /\ srvPhase = "accepted"
    /\ srvPhase' = "streaming"
    /\ Emit(ReadyEvent)
    /\ UNCHANGED <<srvScreen, srvLog, accepted, srvSummary, agent>>
    /\ UNCHANGED cliVars
    /\ UNCHANGED <<reducerVars, auxVars>>

\* the session accepts one structural operation: Patch, fold, emit
ToolCall(p) ==
    /\ srvPhase = "streaming"
    /\ Len(accepted) < StepBudget
    /\ IF agent.kind = "runaway" THEN p = RunawayOp(Len(accepted))
       ELSE Len(accepted) < MaxSteps
    /\ srvScreen' = applyPatch(srvScreen, p)
    /\ srvLog' = Append(srvLog, srvScreen')
    /\ accepted' = Append(accepted, p)
    /\ Emit(PatchEvent(p))
    /\ UNCHANGED <<srvPhase, srvSummary, agent>>
    /\ UNCHANGED cliVars
    /\ UNCHANGED <<reducerVars, auxVars>>

\* the agent's done signal, carrying the summary
Done(summary) ==
    /\ srvPhase = "streaming"
    /\ agent.kind = "varied"
    /\ srvSummary = None
    /\ srvSummary' = Some(summary)
    /\ srvPhase' = "finalizing"
    /\ UNCHANGED <<srvScreen, srvLog, accepted, emitted, agent, stream>>
    /\ UNCHANGED cliVars
    /\ UNCHANGED <<reducerVars, auxVars>>

\* BudgetExhausted reported as a failure of the turn
BudgetExhaustedAsError ==
    /\ srvPhase = "streaming"
    /\ srvSummary = None
    /\ Len(accepted) = StepBudget
    /\ srvPhase' = "terminal"
    /\ Emit(ErrorEvent(Some("Step budget exceeded")))
    /\ UNCHANGED <<srvScreen, srvLog, accepted, srvSummary, agent>>
    /\ UNCHANGED cliVars
    /\ UNCHANGED <<reducerVars, auxVars>>

\* BudgetExhausted leaving the session where it is, waiting for a done signal
BudgetExhaustedStalls ==
    /\ srvPhase = "streaming"
    /\ srvSummary = None
    /\ Len(accepted) = StepBudget
    /\ UNCHANGED vars

\* the budget is used up without a done signal: an implicit finalize
BudgetExhausted ==
    /\ srvPhase = "streaming"
    /\ srvSummary = None
    /\ Len(accepted) = StepBudget
    /\ srvSummary' = Some(FallbackSummary(agent.text))
    /\ srvPhase' = "finalizing"
    /\ UNCHANGED <<srvScreen, srvLog, accepted, emitted, agent, stream>>
    /\ UNCHANGED cliVars
    /\ UNCHANGED <<reducerVars, auxVars>>

\* Finalize emitting its terminal event without becoming terminal
FinalizeRepeating ==
    /\ srvPhase = "finalizing"
    /\ Emit(FinalEvent(srvSummary, srvScreen))
    /\ UNCHANGED <<srvPhase, srvScreen, srvLog, accepted, srvSummary, agent>>
    /\ UNCHANGED cliVars
    /\ UNCHANGED <<reducerVars, auxVars>>

\* Terminal: the running Screen is re-validated; the final event carries the
\* summary and the Screen, a failed validation is an error event
Finalize ==
    /\ srvPhase = "finalizing"
    /\ srvPhase' = "terminal"
    /\ IF screenStateSchema(srvScreen)
       THEN Emit(FinalEvent(srvSummary, srvScreen))
       ELSE Emit(ErrorEvent(Some(ValidationFailure)))
    /\ UNCHANGED <<srvScreen, srvLog, accepted, srvSummary, agent>>
    /\ UNCHANGED cliVars
    /\ UNCHANGED <<reducerVars, auxVars>>

\* Failed: a failure of a model call aborts the turn with an error event (the
\* agent makes no model call once its budget is used up)
Fail ==
    /\ srvPhase = "streaming"
    /\ Len(accepted) < StepBudget
    /\ srvPhase' = "terminal"
    /\ Emit(ErrorEvent(Some(UpstreamFailure)))
    /\ UNCHANGED <<srvScreen, srvLog, accepted, srvSummary, agent>>
    /\ UNCHANGED cliVars
    /\ UNCHANGED <<reducerVars, auxVars>>

(***************************************************************************)
(* The client: consumeGenerateStream hands each event to                    *)
(* handleGenerateSseEvent; an exception leaves the loop and is caught by    *)
(* onSubmit, which reports it and ends the turn.                            *)
(***************************************************************************)
AssistantMessage(content) == [role |-> "assistant", content |-> content]

PatchZodError == "ZodError: patch"
ScreenZodError == "ZodError: screen"

\* the reading loop going on after an exception
ReadingAfterFailure == cliPhase \in {"streaming", "failed"}

\* the loop of consumeGenerateStream is running
Reading == cliPhase = "streaming"

\* catch (e) { setError(message); setMessages([...prev, `Error: ${message}`]) }
\* finally { setLoading(false) }
Caught(message) ==
    /\ cliPhase' = "failed"
    /\ cliMessages' = Append(cliMessages, AssistantMessage("Error: " \o message))
    /\ UNCHANGED <<cliScreen, cliApplied, cliFinal>>

\* setScreen((prev) => applyPatch(prev ?? emptyScreen, patch)) with the prev it ignores
ClientPatchedFromEmpty(screen, p) == Some(applyPatch(emptyScreen, p))

\* setScreen((prev) => applyPatch(prev ?? emptyScreen, patch))
ClientPatched(screen, p) ==
    Some(applyPatch(IF screen = None THEN emptyScreen ELSE screen[1], p))

\* handleGenerateSseEvent, case "patch", with onSubmit's onPatch handler
OnPatch ==
    /\ Reading
    /\ stream # <<>>
    /\ Head(stream).event = "patch"
    /\ stream' = Tail(stream)
    /\ IF patchSchema(Head(stream).patch)
       THEN /\ cliScreen' = ClientPatched(cliScreen, Head(stream).patch)
            /\ cliApplied' = cliApplied + 1
            /\ UNCHANGED <<cliPhase, cliMessages, cliFinal>>
       ELSE Caught(PatchZodError)
    /\ UNCHANGED srvVars
    /\ UNCHANGED <<reducerVars, auxVars>>

\* typeof x === "string" && x.trim() ? x.trim() : fallback
TrimmedOr(x, fallback) == IF x # None /\ Trim(x[1]) # "" THEN Trim(x[1]) ELSE fallback

\* the final case without screenStateSchema.parse
OnFinalUnchecked ==
    /\ Reading
    /\ stream # <<>>
    /\ Head(stream).event = "final"
    /\ stream' = Tail(stream)
    /\ cliScreen' = Some(Head(stream).screen)
    /\ cliFinal' = Some(Head(stream).screen)
    /\ cliMessages' = Append(cliMessages,
            AssistantMessage(TrimmedOr(Head(stream).summary, "Updated screen components.")))
    /\ UNCHANGED <<cliPhase, cliApplied>>
    /\ UNCHANGED srvVars
    /\ UNCHANGED <<reducerVars, auxVars>>

\* handleGenerateSseEvent, case "final", with onSubmit's onFinal handler
OnFinal ==
    /\ Reading
    /\ stream # <<>>
    /\ Head(stream).event = "final"
    /\ stream' = Tail(stream)
    /\ IF screenStateSchema(Head(stream).screen)
       THEN /\ cliScreen' = Some(Head(stream).screen)
            /\ cliFinal' = Some(Head(stream).screen)
            /\ cliMessages' = Append(cliMessages,
                    AssistantMessage(TrimmedOr(Head(stream).summary, "Updated screen components.")))
            /\ UNCHANGED <<cliPhase, cliApplied>>
       ELSE Caught(ScreenZodError)
    /\ UNCHANGED srvVars
    /\ UNCHANGED <<reducerVars, auxVars>>

\* handleGenerateSseEvent, case "error": throw new Error(message)
OnError ==
    /\ Reading
    /\ stream # <<>>
    /\ Head(stream).event = "error"
    /\ stream' = Tail(stream)
    /\ Caught(TrimmedOr(Head(stream).message, "Unknown error"))
    /\ UNCHANGED srvVars
    /\ UNCHANGED <<reducerVars, auxVars>>

\* handleGenerateSseEvent, default: any other event (ready, tool_call) is passed over
OnOther ==
    /\ Reading
    /\ stream # <<>>
    /\ Head(stream).event \notin {"patch", "final", "error"}
    /\ stream' = Tail(stream)
    /\ UNCHANGED cliVars
    /\ UNCHANGED srvVars
    /\ UNCHANGED <<reducerVars, auxVars>>

\* reader.read() reports done: the loop ends, finally { setLoading(false) }
StreamEnd ==
    /\ Reading
    /\ stream = <<>>
    /\ srvPhase \in {"terminal", "off"}
    /\ cliPhase' = "ended"
    /\ UNCHANGED <<cliScreen, cliApplied, cliMessages, cliFinal>>
    /\ UNCHANGED stream
    /\ UNCHANGED srvVars
    /\ UNCHANGED <<reducerVars, auxVars>>

ClientNext == OnPatch \/ OnFinal \/ OnError \/ OnOther \/ StreamEnd

TurnNext ==
    \/ Ready
    \/ \E p \in ToolPatches : ToolCall(p)
    \/ \E summary \in DoneSummaries : Done(summary)
    \/ BudgetExhausted
    \/ Finalize
    \/ Fail
    \/ ClientNext

SpecTurn == TurnInit /\ [][TurnNext]_vars

\* the steps of the session and its agent
ServerNext ==
    \/ Ready
    \/ \E p \in ToolPatches : ToolCall(p)
    \/ \E summary \in DoneSummaries : Done(summary)
    \/ BudgetExhausted
    \/ Finalize
    \/ Fail

\* a turn whose session keeps taking steps while it has one to take (the
\* agent's model calls return) and whose client keeps reading its stream
\* (reader.read() resolves)
\* the turns that start without a Screen
FirstTurnInit == TurnInit /\ cliScreen = None

FairTurn == FirstTurnInit /\ [][TurnNext]_vars /\ WF_vars(ServerNext) /\ WF_vars(ClientNext)

(***************************************************************************)
(* The client alone, reading a stream of any events in any order: what a    *)
(* session, or a network that loses, repeats or reorders events, can send.  *)
(***************************************************************************)
MaxEvents == 3      \* events of a stream

WirePatches ==
    {MkPatch(<<Entry(idA, Hero)>>, <<>>, <<>>),
     MkPatch(<<>>, <<>>, <<[op |-> "remove", component_id |-> idA]>>),
     MkPatch(<<Entry(idB, Blank)>>, <<>>, <<>>)}

\* snapshots: a valid Screen, one with a dangling and repeated layout id, one
\* with a malformed components key
WireScreens ==
    {MkScreen([k \in {idA} |-> Nav], <<idA>>),
     MkScreen([k \in {idA} |-> Nav], <<idB, idA, idA>>),
     MkScreen([k \in {idBad} |-> Nav], <<>>)}

WireEvents ==
    {ReadyEvent}
    \cup {PatchEvent(p) : p \in WirePatches}
    \cup {FinalEvent(Some("Done."), s) : s \in WireScreens}
    \cup {FinalEvent(None, MkScreen([k \in {idA} |-> Nav], <<idA>>))}
    \cup {ErrorEvent(m) : m \in {Some("boom"), None}}

ClientInit ==
    /\ pc = "off" /\ prev = emptyScreen /\ patch = MkPatch(<<>>, <<>>, <<>>)
    /\ out = emptyScreen /\ prevAfter = emptyScreen /\ out2 = emptyScreen
    /\ agent = [kind |-> "none", text |-> ""]
    /\ srvPhase = "off" /\ srvScreen = emptyScreen /\ srvLog = <<>> /\ srvSummary = None
    /\ accepted = <<>> /\ emitted = <<>>
    /\ stream \in SeqsUpTo(WireEvents, MaxEvents)
    /\ cliScreen \in {None, Some(MkScreen([k \in {idA, idB} |-> Old], <<idB, idA>>))}
    /\ cliPhase = "streaming"
    /\ cliApplied = 0
    /\ cliMessages = <<>>
    /\ cliFinal = None
    /\ AuxOff

SpecClient == ClientInit /\ [][ClientNext]_vars

(***************************************************************************)
(* The JSON route: POST answers one request with one JSON response. A JSON  *)
(* object is a record whose optional members are None or Some(value); a     *)
(* text of the model is a sequence of tokens: a code fence, a line break,   *)
(* prose, a complete JSON value, or an object cut off before its first      *)
(* closing brace.                                                           *)
(***************************************************************************)
PromptMaxLen == 10000
MessageMaxLen == 10000
MessagesMax == 50
SummaryMaxLen == 500

\* messageSchema
messageSchema(m) ==
    /\ m.role \in {"user", "assistant"}
    /\ Len(m.content) >= 1 /\ Len(m.content) <= MessageMaxLen

\* the members of generateRequestSchema that reject the body
RequestFieldErrors(b) ==
    {f \in {"prompt", "messages", "screen"} :
        CASE f = "prompt" ->
                IF b.prompt = None THEN TRUE
                ELSE ~(Len(b.prompt[1]) >= 1 /\ Len(b.prompt[1]) <= PromptMaxLen)
          [] f = "messages" ->
                IF b.messages = None THEN FALSE
                ELSE ~(/\ Len(b.messages[1]) <= MessagesMax
                       /\ \A i \in 1..Len(b.messages[1]) : messageSchema(b.messages[1][i]))
          [] f = "screen" ->
                IF b.screen = None THEN FALSE ELSE ~screenStateSchema(b.screen[1])}

\* parsedReq.error.flatten()
RequestErrorFlatten(b) ==
    IF b.kind # "object"
    THEN [formErrors |-> <<"Expected object">>, fieldErrors |-> {}]
    ELSE [formErrors |-> <<>>, fieldErrors |-> RequestFieldErrors(b)]

\* generateRequestSchema.safeParse(body).success
generateRequestSchema(b) ==
    IF b.kind # "object" THEN FALSE ELSE RequestFieldErrors(b) = {}

\* agentResponseSchema.safeParse(json).success
agentResponseSchema(v) ==
    IF v.kind # "object" THEN FALSE
    ELSE IF v.summary = None THEN FALSE
    ELSE IF ~(Len(v.summary[1]) >= 1 /\ Len(v.summary[1]) <= SummaryMaxLen) THEN FALSE
    ELSE IF v.action = Some("regenerate")
         THEN IF v.screen = None THEN FALSE ELSE screenStateSchema(v.screen[1])
    ELSE IF v.action = Some("patch")
         THEN IF v.patch = None THEN FALSE ELSE patchSchema(v.patch[1])
    ELSE FALSE

\* parsed.data: the members of the matching variant, others stripped
AgentData(v) ==
    IF v.action = Some("regenerate") THEN [v EXCEPT !.patch = None]
    ELSE [v EXCEPT !.screen = None]

FenceJson == [k |-> "fence", json |-> TRUE]    \* ```json
FencePlain == [k |-> "fence", json |-> FALSE]  \* ```
LineBreak == [k |-> "nl"]
Prose == [k |-> "prose"]
CutObject == [k |-> "cut"]
JsonText(v) == [k |-> "value", v |-> v]

RECURSIVE TrimStart(_)
TrimStart(t) == IF t # <<>> /\ Head(t).k = "nl" THEN TrimStart(Tail(t)) ELSE t

RECURSIVE TrimEnd(_)
TrimEnd(t) ==
    IF t # <<>> /\ t[Len(t)].k = "nl" THEN TrimEnd(SubSeq(t, 1, Len(t) - 1)) ELSE t

\* text.trim()
TrimText(t) == TrimEnd(TrimStart(t))

OpensBrace(tok) == tok.k = "cut" \/ (tok.k = "value" /\ tok.v.kind = "object")
ClosesBrace(tok) == tok.k = "value" /\ tok.v.kind = "object"

\* trimmed.slice(first, last + 1) between the first "{" and the last "}"
BraceSlice(t) ==
    LET opens == {i \in 1..Len(t) : OpensBrace(t[i])}
        closes == {i \in 1..Len(t) : ClosesBrace(t[i])}
    IN IF opens # {} /\ closes # {}
       THEN TrimText(SubSeq(t, CHOOSE i \in opens : \A j \in opens : i <= j,
                               CHOOSE i \in closes : \A j \in closes : i >= j))
       ELSE t

\* the branch for an opening fence without a matching closing one
StripOpenFence(t) ==
    LET breaks == {i \in 1..Len(t) : t[i].k = "nl"}
        t1 == IF breaks # {}
              THEN TrimText(SubSeq(t, (CHOOSE i \in breaks : \A j \in breaks : i <= j) + 1, Len(t)))
              ELSE t
        fences == {i \in 1..Len(t1) : t1[i].k = "fence"}
    IN IF fences # {}
       THEN TrimText(SubSeq(t1, 1, (CHOOSE i \in fences : \A j \in fences : i >= j) - 1))
       ELSE t1

extractJson(text) ==
    LET trimmed == TrimText(text)
        n == Len(trimmed)
        fenced == n >= 2 /\ trimmed[1].k = "fence" /\ trimmed[n] = FencePlain
        inner == IF fenced THEN TrimText(SubSeq(trimmed, 2, n - 1)) ELSE <<>>
    IN IF inner # <<>> THEN inner
       ELSE IF trimmed # <<>> /\ trimmed[1].k = "fence" THEN BraceSlice(StripOpenFence(trimmed))
       ELSE BraceSlice(trimmed)

\* JSON.parse(jsonText): Some(value), or None when it throws
JsonParse(t) ==
    LET u == TrimText(t)
    IN IF Len(u) = 1 /\ u[1].k = "value" THEN Some(u[1].v) ELSE None

NotJsonBody == [kind |-> "text"]
ScalarJson == [kind |-> "scalar"]
ObjectBody(p, m, sc) == [kind |-> "object", prompt |-> p, messages |-> m, screen |-> sc]
Message(r, c) == [role |-> r, content |-> c]

RequestMessages ==
    {None, Some(<<>>), Some(<<Message("user", "Make a page")>>),
     Some(<<Message("system", "Be brief")>>),
     Some([i \in 1..(MessagesMax + 1) |-> Message("user", "More")])}

RequestBodies ==
    {NotJsonBody, ScalarJson}
    \cup {ObjectBody(p, m, sc) :
            p \in {None, Some(""), Some("Add a hero"), Some(Repeat(PromptMaxLen + 1))},
            m \in RequestMessages,
            sc \in {None} \cup {Some(x) : x \in WireScreens}}

AgentObject(a, sm, sc, pt) ==
    [kind |-> "object", action |-> a, summary |-> sm, screen |-> sc, patch |-> pt]

\* what the model's JSON can be: the two variants, and objects the schema turns away
AgentJsonValues ==
    {ScalarJson,
     AgentObject(Some("regenerate"), Some("Built it."), Some(MkScreen([k \in {idA} |-> Nav], <<idA>>)), None),
     AgentObject(Some("regenerate"), Some("Built it."), Some(MkScreen([k \in {idBad} |-> Nav], <<>>)), None),
     AgentObject(Some("regenerate"), Some(""), Some(MkScreen([k \in {idA} |-> Nav], <<idA>>)), None),
     AgentObject(Some("patch"), Some("Added."), None, Some(MkPatch(<<Entry(idA, Hero)>>, <<>>, <<>>))),
     AgentObject(Some("patch"), Some("Added."), None, Some(MkPatch(<<Entry(idB, Blank)>>, <<>>, <<>>))),
     AgentObject(Some("patch"), Some("Added."), Some(MkScreen([k \in {idA} |-> Nav], <<idA>>)), None),
     AgentObject(Some("answer"), Some("Hello."), None, None)}

MaxTextLen == 3   \* most tokens in one text of the model

TextTokens ==
    {FenceJson, FencePlain, LineBreak, Prose, CutObject} \cup {JsonText(v) : v \in AgentJsonValues}

\* how the call to the model ends
UpstreamOutcomes ==
    {[kind |-> "promptThrows"], [kind |-> "generateThrows"]}
    \cup {[kind |-> "text", text |-> t] : t \in SeqsUpTo(TextTokens, MaxTextLen)}

\* NextResponse.json(body, { status })
Response(status, error, details, data) ==
    [status |-> status, error |-> error, details |-> details, data |-> data]

Respond(r) == [route EXCEPT !.pc = "done", !.responses = Append(@, r)]

RouteInit ==
    /\ pc = "off" /\ prev = emptyScreen /\ patch = MkPatch(<<>>, <<>>, <<>>)
    /\ out = emptyScreen /\ prevAfter = emptyScreen /\ out2 = emptyScreen
    /\ TurnOff
    /\ render = [pc |-> "off"] /\ page = [pc |-> "off"] /\ sse = [pc |-> "off"]
    /\ route \in {[pc |-> "start", apiKey |-> k, body |-> None, upstream |-> None,
                   calls |-> 0, responses |-> <<>>] : k \in BOOLEAN}

\* const apiKey = process.env.ANTHROPIC_API_KEY; if (!apiKey) return 500
CheckCredentials ==
    /\ route.pc = "start"
    /\ route' = IF ~route.apiKey
                THEN Respond(Response(500, "Missing ANTHROPIC_API_KEY in environment", None, None))
                ELSE [route EXCEPT !.pc = "body"]
    /\ UNCHANGED <<reducerVars, turnVars, render, page, sse>>

\* ReadBody going on to the model with any body that is JSON
ReadBodyUnvalidated ==
    /\ route.pc = "body"
    /\ \E b \in RequestBodies :
          route' = IF b = NotJsonBody
                   THEN [Respond(Response(400, "Invalid JSON body", None, None))
                            EXCEPT !.body = Some(b)]
                   ELSE [route EXCEPT !.pc = "generate", !.body = Some(b)]
    /\ UNCHANGED <<reducerVars, turnVars, render, page, sse>>

\* body = await req.json(), then generateRequestSchema.safeParse(body)
ReadBody ==
    /\ route.pc = "body"
    /\ \E b \in RequestBodies :
          route' = IF b = NotJsonBody
                   THEN [Respond(Response(400, "Invalid JSON body", None, None))
                            EXCEPT !.body = Some(b)]
                   ELSE IF ~generateRequestSchema(b)
                   THEN [Respond(Response(400, "Invalid request",
                                          Some(RequestErrorFlatten(b)), None))
                            EXCEPT !.body = Some(b)]
                   ELSE [route EXCEPT !.pc = "generate", !.body = Some(b)]
    /\ UNCHANGED <<reducerVars, turnVars, render, page, sse>>

\* await generateText({ system: await getSystemPrompt(), ... }) and the catch
Generate ==
    /\ route.pc = "generate"
    /\ \E o \in UpstreamOutcomes :
          route' =
            IF o.kind = "promptThrows"
            THEN [Respond(Response(502, "AI SDK generation failed", Some("prompt"), None))
                     EXCEPT !.upstream = Some(o)]
            ELSE IF o.kind = "generateThrows"
            THEN [Respond(Response(502, "AI SDK generation failed", Some("upstream"), None))
                     EXCEPT !.upstream = Some(o), !.calls = @ + 1]
            ELSE [route EXCEPT !.pc = "answer", !.upstream = Some(o), !.calls = @ + 1]
    /\ UNCHANGED <<reducerVars, turnVars, render, page, sse>>

\* Answer returning the parsed JSON without agentResponseSchema.safeParse
AnswerUnchecked ==
    /\ route.pc = "answer"
    /\ LET json == JsonParse(extractJson(route.upstream[1].text))
       IN route' =
            IF json = None
            THEN Respond(Response(502, "Model did not return valid JSON", None, None))
            ELSE Respond(Response(200, "", None, json))
    /\ UNCHANGED <<reducerVars, turnVars, render, page, sse>>

\* extractJson, JSON.parse, agentResponseSchema.safeParse, the response
Answer ==
    /\ route.pc = "answer"
    /\ LET json == JsonParse(extractJson(route.upstream[1].text))
       IN route' =
            IF json = None
            THEN Respond(Response(502, "Model did not return valid JSON", None, None))
            ELSE IF ~agentResponseSchema(json[1])
            THEN Respond(Response(502, "Model JSON failed schema validation",
                                  Some("schema"), None))
            ELSE Respond(Response(200, "", None, Some(AgentData(json[1]))))
    /\ UNCHANGED <<reducerVars, turnVars, render, page, sse>>

RouteNext == CheckCredentials \/ ReadBody \/ Generate \/ Answer

SpecRoute == RouteInit /\ [][RouteNext]_vars

\* the two places where input from outside is parsed, each running by itself:
\* the client reading a stream, the route answering a request
InputsInit == ClientInit \/ RouteInit

InputsNext == ClientNext \/ RouteNext

SpecInputs == InputsInit /\ [][InputsNext]_vars

(***************************************************************************)
(* The preview documents. stripScriptsAndHandlers is three String.replace   *)
(* calls with global, case-insensitive regular expressions; each is one     *)
(* scan from left to right that deletes the matches it finds in its input   *)
(* and does not look at its own output again.                               *)
(***************************************************************************)
At(s, i) == SubSeq(s, i, i)

UpperLetters == "ABCDEFGHIJKLMNOPQRSTUVWXYZ"
LowerLetters == "abcdefghijklmnopqrstuvwxyz"
Letters == {At(LowerLetters, i) : i \in 1..Len(LowerLetters)}
DigitSet == {"0", "1", "2", "3", "4", "5", "6", "7", "8", "9"}

\* the flag i: one character folded to lower case
LowerChar(c) ==
    IF \E i \in 1..Len(UpperLetters) : At(UpperLetters, i) = c
    THEN At(LowerLetters, CHOOSE i \in 1..Len(UpperLetters) : At(UpperLetters, i) = c)
    ELSE c

IsLetter(c) == LowerChar(c) \in Letters                  \* [a-z] under the flag i
IsWordChar(c) == IsLetter(c) \/ c \in DigitSet \/ c = "_"  \* \w, for \b
IsSpace(c) == c \in {" ", "\n", "\t"}                    \* \s
IsValueChar(c) == ~IsSpace(c) /\ c # ">"                 \* [^\s>]

\* the literal w (given in lower case) matches at position i
StartsWithAt(s, i, w) ==
    /\ i >= 1 /\ i + Len(w) - 1 <= Len(s)
    /\ \A k \in 1..Len(w) : LowerChar(At(s, i + k - 1)) = At(w, k)

\* the first position from i on whose character is not in the class, or Len + 1
FirstNot(s, i, InClass(_)) ==
    LET rest == {j \in i..Len(s) : ~InClass(At(s, j))}
    IN IF rest = {} THEN Len(s) + 1 ELSE CHOOSE j \in rest : \A k \in rest : j <= k

\* /<script\b[^<]*(?:(?!<\/script>)<[^<]*)*<\/script>/ at i: the last position
\* of the match, 0 when there is none. The body cannot run over a "</script>",
\* so the match ends with the first one.
ScriptMatchEnd(s, i) ==
    IF ~StartsWithAt(s, i, "<script") THEN 0
    ELSE IF i + 7 <= Len(s) /\ IsWordChar(At(s, i + 7)) THEN 0
    ELSE LET closes == {j \in (i + 7)..Len(s) : StartsWithAt(s, j, "</script>")}
         IN IF closes = {} THEN 0
            ELSE (CHOOSE j \in closes : \A k \in closes : j <= k) + 8

\* /\son[a-z]+\s*=\s*/ at i: the position after it, 0 when it does not match
HandlerHead(s, i) ==
    IF ~(i <= Len(s) /\ IsSpace(At(s, i)) /\ StartsWithAt(s, i + 1, "on")) THEN 0
    ELSE LET afterName == FirstNot(s, i + 3, IsLetter)
             eq == FirstNot(s, afterName, IsSpace)
         IN IF afterName = i + 3 THEN 0
            ELSE IF eq > Len(s) THEN 0
            ELSE IF At(s, eq) # "=" THEN 0
            ELSE FirstNot(s, eq + 1, IsSpace)

\* /\son[a-z]+\s*=\s*(['"])[\s\S]*?\1/ at i
QuotedHandlerMatchEnd(s, i) ==
    LET v == HandlerHead(s, i)
    IN IF v = 0 \/ v > Len(s) THEN 0
       ELSE IF At(s, v) \notin {"'", "\""} THEN 0
       ELSE LET closes == {j \in (v + 1)..Len(s) : At(s, j) = At(s, v)}
            IN IF closes = {} THEN 0 ELSE CHOOSE j \in closes : \A k \in closes : j <= k

\* /\son[a-z]+\s*=\s*[^\s>]+/ at i
BareHandlerMatchEnd(s, i) ==
    LET v == HandlerHead(s, i)
    IN IF v = 0 \/ v > Len(s) THEN 0
       ELSE IF ~IsValueChar(At(s, v)) THEN 0
       ELSE FirstNot(s, v, IsValueChar) - 1

MatchEnd(re, s, i) ==
    CASE re = "script" -> ScriptMatchEnd(s, i)
      [] re = "quoted" -> QuotedHandlerMatchEnd(s, i)
      [] re = "bare" -> BareHandlerMatchEnd(s, i)

\* s.replace(re, "") from position i on: one scan, matches do not overlap
RECURSIVE ReplaceFrom(_, _, _)
ReplaceFrom(re, s, i) ==
    IF i > Len(s) THEN ""
    ELSE LET e == MatchEnd(re, s, i)
         IN IF e = 0 THEN At(s, i) \o ReplaceFrom(re, s, i + 1)
            ELSE ReplaceFrom(re, s, e + 1)

stripScriptsAndHandlers(input) ==
    ReplaceFrom("bare", ReplaceFrom("quoted", ReplaceFrom("script", input, 1), 1), 1)

\* htmlParts.join("\n")
RECURSIVE JoinLines(_)
JoinLines(parts) ==
    IF parts = <<>> THEN ""
    ELSE IF Len(parts) = 1 THEN parts[1]
    ELSE parts[1] \o "\n" \o JoinLines(Tail(parts))

NoScreenYet == "<div>No screen yet</div>"
NoComponentSelected == "<div>No component selected</div>"

\* the parts of the document that come from the Screen: bodyInner and the
\* content of the style element (the layouts rendered here hold stored ids only)
renderScreenSrcDoc(screen) ==
    LET placed == IF screen = None THEN <<>>
                  ELSE SelectSeq(screen[1].layout,
                                 LAMBDA id : id \in DOMAIN screen[1].components)
        htmlParts == [i \in 1..Len(placed) |->
                         stripScriptsAndHandlers(screen[1].components[placed[i]].html)]
    IN [bodyInner |-> IF Len(htmlParts) > 0 THEN JoinLines(htmlParts) ELSE NoScreenYet,
        safeGlobalCss |-> stripScriptsAndHandlers(
                              IF screen = None \/ screen[1].globalCss = None THEN ""
                              ELSE screen[1].globalCss[1])]

renderComponentSrcDoc(screen, componentId) ==
    LET found == /\ componentId # None /\ screen # None
                 /\ componentId[1] \in DOMAIN screen[1].components
    IN [bodyInner |-> IF found
                      THEN stripScriptsAndHandlers(screen[1].components[componentId[1]].html)
                      ELSE NoComponentSelected,
        safeGlobalCss |-> stripScriptsAndHandlers(
                              IF screen = None \/ screen[1].globalCss = None THEN ""
                              ELSE screen[1].globalCss[1])]

MaxPieces == 3   \* most pieces in one component's html

\* pieces of markup a component's html is put together from
HtmlPieces ==
    {"<p>hi</p>", "<script>alert(1)</script>", "<scr", "ipt>alert(2)</script>",
     "<SCRIPT src=x></SCRIPT>", "<script>alert(3)</script >",
     "<b onclick=\"go()\">b</b>", "<img src=x onerror=alert(4)>", "<svg/onload=alert(5)>",
     " on", "click=go()>"}

RECURSIVE Concat(_)
Concat(pieces) == IF pieces = <<>> THEN "" ELSE Head(pieces) \o Concat(Tail(pieces))

ComponentHtmls == {Concat(ps) : ps \in SeqsUpTo(HtmlPieces, MaxPieces)} \ {""}

\* Screens to render: one component, or that component after a plain one
RenderScreens ==
    {MkScreen([k \in {idA} |-> [name |-> "Hero", html |-> h]], <<idA>>) : h \in ComponentHtmls}
    \cup {MkScreen([k \in {idA, idB} |-> IF k = idA THEN [name |-> "Hero", html |-> h] ELSE Old],
                   <<idB, idA>>) : h \in ComponentHtmls}

RenderInit ==
    /\ pc = "off" /\ prev = emptyScreen /\ patch = MkPatch(<<>>, <<>>, <<>>)
    /\ out = emptyScreen /\ prevAfter = emptyScreen /\ out2 = emptyScreen
    /\ TurnOff
    /\ route = [pc |-> "off"] /\ page = [pc |-> "off"] /\ sse = [pc |-> "off"]
    /\ render \in {[pc |-> "input", screen |-> sc, selected |-> sel, doc |-> None, fn |-> ""] :
                     sc \in {None} \cup {Some(x) : x \in RenderScreens},
                     sel \in {None, Some(idA)}}
    /\ screenStateSchema(IF render.screen = None THEN emptyScreen ELSE render.screen[1]) = TRUE

\* const srcDoc = useMemo(() => renderScreenSrcDoc(screen), [screen])
RenderScreenDoc ==
    /\ render.pc = "input"
    /\ render' = [render EXCEPT !.pc = "done", !.fn = "screen",
                                !.doc = Some(renderScreenSrcDoc(render.screen))]
    /\ UNCHANGED <<reducerVars, turnVars, route, page, sse>>

\* renderComponentSrcDoc(screen, selectedComponentId)
RenderComponentDoc ==
    /\ render.pc = "input"
    /\ render' = [render EXCEPT !.pc = "done", !.fn = "component",
                                !.doc = Some(renderComponentSrcDoc(render.screen, render.selected))]
    /\ UNCHANGED <<reducerVars, turnVars, route, page, sse>>

RenderNext == RenderScreenDoc \/ RenderComponentDoc

SpecRender == RenderInit /\ [][RenderNext]_vars

(***************************************************************************)
(* The page component Home: its React state (prompt, messages, screen,      *)
(* loading), the handlers onSubmit and reset, and the turns whose response   *)
(* streams are being read. A turn is a call of onSubmit that passed its      *)
(* guard: it reads its stream until the stream ends or a handler throws.     *)
(***************************************************************************)
MaxTurns == 2   \* most calls of onSubmit that pass the guard

UserMessage(content) == [role |-> "user", content |-> content]

\* what the user types into the prompt box
Prompts == {"Add a hero", "  "}

\* response streams of the generate endpoint
PageStreams ==
    {<<PatchEvent(MkPatch(<<Entry(idA, Hero)>>, <<>>, <<>>)),
       FinalEvent(Some("Done."), MkScreen([k \in {idA} |-> Hero], <<idA>>))>>,
     <<ReadyEvent, FinalEvent(None, MkScreen([k \in {idB} |-> Nav], <<idB>>))>>,
     <<PatchEvent(MkPatch(<<Entry(idB, Blank)>>, <<>>, <<>>))>>,
     <<ErrorEvent(Some("boom"))>>}

PageInit ==
    /\ pc = "off" /\ prev = emptyScreen /\ patch = MkPatch(<<>>, <<>>, <<>>)
    /\ out = emptyScreen /\ prevAfter = emptyScreen /\ out2 = emptyScreen
    /\ TurnOff
    /\ route = [pc |-> "off"] /\ render = [pc |-> "off"] /\ sse = [pc |-> "off"]
    /\ page = [pc |-> "on", prompt |-> "", messages |-> <<>>, screen |-> None,
               loading |-> FALSE, turns |-> <<>>, cleared |-> FALSE]

\* onChange of the prompt box: setPrompt(value)
TypePrompt ==
    /\ page.pc = "on"
    /\ \E p \in Prompts : p # page.prompt /\ page' = [page EXCEPT !.prompt = p]
    /\ UNCHANGED <<reducerVars, turnVars, route, render, sse>>

\* onSubmit up to the fetch: the guard, setLoading(true), the user message
Submit ==
    /\ page.pc = "on"
    /\ IF Trim(page.prompt) = "" \/ page.loading
       THEN UNCHANGED page
       ELSE /\ Len(page.turns) < MaxTurns
            /\ \E st \in PageStreams :
                 page' = [page EXCEPT
                            !.loading = TRUE,
                            !.messages = Append(@, UserMessage(Trim(page.prompt))),
                            !.prompt = "",
                            !.turns = Append(@, [reading |-> TRUE, stream |-> st]),
                            !.cleared = FALSE]
    /\ UNCHANGED <<reducerVars, turnVars, route, render, sse>>

\* reset: the state setters; the turns in flight are not touched
Reset ==
    /\ page.pc = "on"
    /\ page' = [page EXCEPT !.prompt = "", !.messages = <<>>, !.screen = None,
                            !.loading = FALSE, !.cleared = TRUE]
    /\ UNCHANGED <<reducerVars, turnVars, route, render, sse>>

\* the catch and the finally of onSubmit, for turn i
PageCaught(i, message) ==
    [page EXCEPT !.turns[i].reading = FALSE,
                 !.turns[i].stream = Tail(@),
                 !.messages = Append(@, AssistantMessage("Error: " \o message)),
                 !.loading = FALSE]

\* handleGenerateSseEvent for the next event of turn i, with onSubmit's handlers
PageEvent(i) ==
    /\ page.pc = "on"
    /\ i \in DOMAIN page.turns
    /\ page.turns[i].reading
    /\ page.turns[i].stream # <<>>
    /\ LET e == Head(page.turns[i].stream)
           read == [page EXCEPT !.turns[i].stream = Tail(@)]
       IN page' =
            CASE e.event = "patch" ->
                    IF patchSchema(e.patch)
                    THEN [read EXCEPT !.screen = ClientPatched(page.screen, e.patch)]
                    ELSE PageCaught(i, PatchZodError)
              [] e.event = "final" ->
                    IF screenStateSchema(e.screen)
                    THEN [read EXCEPT
                            !.screen = Some(e.screen),
                            !.messages = Append(@, AssistantMessage(
                                TrimmedOr(e.summary, "Updated screen components.")))]
                    ELSE PageCaught(i, ScreenZodError)
              [] e.event = "error" ->
                    PageCaught(i, TrimmedOr(e.message, "Unknown error"))
              [] OTHER -> read
    /\ UNCHANGED <<reducerVars, turnVars, route, render, sse>>

\* reader.read() reports done for turn i: finally { setLoading(false) }
PageStreamEnd(i) ==
    /\ page.pc = "on"
    /\ i \in DOMAIN page.turns
    /\ page.turns[i].reading
    /\ page.turns[i].stream = <<>>
    /\ page' = [page EXCEPT !.turns[i].reading = FALSE, !.loading = FALSE]
    /\ UNCHANGED <<reducerVars, turnVars, route, render, sse>>

PageNext ==
    \/ TypePrompt
    \/ Submit
    \/ Reset
    \/ \E i \in 1..MaxTurns : PageEvent(i)
    \/ \E i \in 1..MaxTurns : PageStreamEnd(i)

SpecPage == PageInit /\ [][PageNext]_vars

(***************************************************************************)
(* The event stream on the wire. consumeGenerateStream appends each chunk  *)
(* of the response body to a buffer, lets parseSseEvents cut the complete  *)
(* records off its front and keeps what is left for the next chunk.        *)
(***************************************************************************)
\* s.split(sep) for a separator of one or two characters: the pieces between
\* the leftmost non-overlapping occurrences
RECURSIVE SplitOn(_, _)
SplitOn(s, sep) ==
    LET n == Len(sep)
        at == {i \in 1..(Len(s) - n + 1) : SubSeq(s, i, i + n - 1) = sep}
    IN IF at = {} THEN <<s>>
       ELSE LET i == CHOOSE k \in at : \A j \in at : k <= j
            IN <<SubSeq(s, 1, i - 1)>> \o SplitOn(SubSeq(s, i + n, Len(s)), sep)

StartsWith(s, prefix) == Len(s) >= Len(prefix) /\ SubSeq(s, 1, Len(prefix)) = prefix

\* dataLines.join("\n")
RECURSIVE JoinWith(_, _)
JoinWith(lines, sep) ==
    IF lines = <<>> THEN ""
    ELSE IF Len(lines) = 1 THEN lines[1]
    ELSE lines[1] \o sep \o JoinWith(Tail(lines), sep)

\* the loop over the lines of one record: the last event: line names the
\* event, the data: lines are collected, any other line is passed over
RECURSIVE RecordLoop(_, _, _, _)
RecordLoop(lines, i, event, dataLines) ==
    IF i > Len(lines) THEN [event |-> event, data |-> JoinWith(dataLines, "\n")]
    ELSE IF StartsWith(lines[i], "event:")
         THEN RecordLoop(lines, i + 1, Trim(SubSeq(lines[i], 7, Len(lines[i]))), dataLines)
    ELSE IF StartsWith(lines[i], "data:")
         THEN RecordLoop(lines, i + 1, event,
                         Append(dataLines, Trim(SubSeq(lines[i], 6, Len(lines[i])))))
    ELSE RecordLoop(lines, i + 1, event, dataLines)

SseRecord(chunk) == RecordLoop(SplitOn(chunk, "\n"), 1, "message", <<>>)

\* parseSseEvents that also takes the unfinished end of the buffer for a record
parseSseEventsFlushing(buffer) ==
    LET chunks == SelectSeq(SplitOn(buffer, "\n\n"), LAMBDA c : c # "")
    IN [events |-> [i \in 1..Len(chunks) |-> SseRecord(chunks[i])], rest |-> ""]

parseSseEvents(buffer) ==
    LET chunks == SplitOn(buffer, "\n\n")
        n == Len(chunks) - 1
    IN [events |-> [i \in 1..n |-> SseRecord(chunks[i])], rest |-> chunks[n + 1]]

MaxLines == 3       \* lines of a response body
MaxChunks == 3      \* network chunks a response body arrives in

SseLines == {"", "event:a", "data:1", "data: 2\r", ":"}

\* a body: lines, each ended by a line feed, and an end that may be unfinished
SseBodies ==
    {JoinWith(ls, "\n") \o end : ls \in SeqsUpTo(SseLines, MaxLines) \ {<<>>},
                                end \in {"\n", "\n\n", ""}}

\* the body cut after the given positions
RECURSIVE ChunksOf(_, _, _)
ChunksOf(text, from, cuts) ==
    IF cuts = {} THEN <<SubSeq(text, from, Len(text))>>
    ELSE LET c == CHOOSE k \in cuts : \A j \in cuts : k <= j
         IN <<SubSeq(text, from, c)>> \o ChunksOf(text, c + 1, cuts \ {c})

\* the sets of at most k cut positions among 1..n
RECURSIVE CutSets(_, _)
CutSets(n, k) ==
    IF k = 0 THEN {{}}
    ELSE LET fewer == CutSets(n, k - 1)
         IN fewer \cup {c \cup {a} : c \in fewer, a \in 1..n}

\* every way of cutting a body into at most MaxChunks chunks, none empty
Chunkings(text) ==
    {ChunksOf(text, 1, cuts) : cuts \in CutSets(Len(text) - 1, MaxChunks - 1)}

SseInit ==
    /\ pc = "off" /\ prev = emptyScreen /\ patch = MkPatch(<<>>, <<>>, <<>>)
    /\ out = emptyScreen /\ prevAfter = emptyScreen /\ out2 = emptyScreen
    /\ TurnOff
    /\ route = [pc |-> "off"] /\ render = [pc |-> "off"] /\ page = [pc |-> "off"]
    /\ sse \in UNION {{[pc |-> "reading", text |-> t, chunks |-> c, fed |-> <<>>,
                          buffer |-> "", events |-> <<>>] : c \in Chunkings(t)} :
                        t \in SseBodies}

\* reader.read() yields a chunk: buffer += chunk; parseSseEvents; the records
\* go to the handler in order, the rest stays in the buffer
ReadChunk ==
    /\ sse.pc = "reading"
    /\ sse.chunks # <<>>
    /\ LET parsed == parseSseEvents(sse.buffer \o Head(sse.chunks))
       IN sse' = [sse EXCEPT !.chunks = Tail(@),
                             !.fed = Append(@, Head(sse.chunks)),
                             !.buffer = parsed.rest,
                             !.events = @ \o parsed.events]
    /\ UNCHANGED <<reducerVars, turnVars, route, render, page>>

\* reader.read() reports done: the loop ends
ReadDone ==
    /\ sse.pc = "reading"
    /\ sse.chunks = <<>>
    /\ sse' = [sse EXCEPT !.pc = "done"]
    /\ UNCHANGED <<reducerVars, turnVars, route, render, page>>

SseNext == ReadChunk \/ ReadDone

SpecSse == SseInit /\ [][SseNext]_vars

(***************************************************************************)
(* Claims about the reducer                                                *)
(***************************************************************************)
Applied == pc = "applied"
OnlyUpserts(p) == Len(p.upsert_components) > 0 /\ p.delete_components = <<>> /\ p.layout_patch = <<>>
                  /\ p.title = None /\ p.globalCss = None
OnlyDeletes(p) == p.upsert_components = <<>> /\ Len(p.delete_components) > 0 /\ p.layout_patch = <<>>
                  /\ p.title = None /\ p.globalCss = None
OnlyOps(p) == p.upsert_components = <<>> /\ p.delete_components = <<>>
              /\ p.title = None /\ p.globalCss = None

\* the layout as appendNewComponentsToLayout leaves it, before normalizeLayout
PreLayout == BeforeNormalize(prev, patch).next.layout

\* the first position of x in seq
FirstAt(seq, x) ==
    LET S == {i \in 1..Len(seq) : seq[i] = x} IN CHOOSE i \in S : \A j \in S : i <= j

\* C1: after applyPatch on a schema-accepted Screen, every id in the layout is
\* a key of components.
C1_NoDanglingAfterApply == Applied => NoDangling(out)

\* C2: the resulting layout holds each id at most once, and ids that occurred
\* several times before normalisation stay where their first occurrence was:
\* the ids of the result are ordered by their first occurrence.
C2_NoDuplicatesFirstWins ==
    Applied =>
        /\ NoDuplicates(out)
        /\ LET pre == PreLayout
           IN /\ Range(out.layout) \subseteq Range(pre)
              /\ \A i \in 1..(Len(out.layout) - 1) :
                    FirstAt(pre, out.layout[i]) < FirstAt(pre, out.layout[i + 1])

C2_Witness ==
    /\ Applied
    /\ Len(PreLayout) <= 4
    /\ \E i, j, k \in 1..Len(PreLayout) :
          /\ i < j /\ j < k
          /\ PreLayout[i] = PreLayout[k] /\ PreLayout[j] # PreLayout[i]
          /\ {PreLayout[i], PreLayout[j]} \subseteq Range(out.layout)

\* the ids of seq that are keys of comps, each at its first occurrence
DistinctValid(seq, comps) ==
    LET at == [i \in 1..Len(seq) |-> [i |-> i, id |-> seq[i]]]
        kept == SelectSeq(at, LAMBDA e : e.id \in DOMAIN comps /\ FirstAt(seq, e.id) = e.i)
    IN [k \in 1..Len(kept) |-> kept[k].id]

\* C3: the resulting layout has at most 200 entries; when more than 200 valid
\* distinct ids would result, the earliest 200 are kept in order.
C3_AtMost200EarliestKept ==
    Applied =>
        /\ Len(out.layout) <= 200
        /\ LET dv == DistinctValid(PreLayout, out.components)
           IN Len(dv) > 200 => out.layout = SubSeq(dv, 1, 200)

\* C4: every key of the resulting components mapping has the ComponentId format.
C4_KeysWellFormed == Applied => WellFormedKeys(out)

C4_Witness == Applied /\ DOMAIN out.components \ DOMAIN prev.components # {}

\* C5: applyPatch leaves the object passed as prev as it was: components (and
\* every stored component), layout, title and globalCss.
C5_PrevNotMutated == Applied => prevAfter = prev

C5_Witness ==
    /\ Applied
    /\ Len(patch.upsert_components) > 0
    /\ Len(patch.delete_components) > 0
    /\ Len(patch.layout_patch) > 0
    /\ out.components # prev.components
    /\ out.layout # prev.layout
    /\ prevAfter = prev

IsScreen(s) ==
    /\ DOMAIN s = {"title", "globalCss", "components", "layout"}
    /\ DOMAIN s.layout = 1..Len(s.layout)
    /\ \A k \in DOMAIN s.components : DOMAIN s.components[k] = {"name", "html"}

UnknownRef(op, comps) ==
    op.op \in {"insert", "move", "remove"} /\ op.component_id \notin DOMAIN comps

\* C6: applyPatch returns a Screen for every input; an op that names an id
\* absent from components is a no-op and the ops after it are applied as if it
\* were not there; a delete of an unknown id changes nothing; a set drops the
\* unknown ids of its list.
C6_TotalReferenceErrorsDropped ==
    Applied =>
        /\ IsScreen(out)
        /\ (ValidScreen(prev) /\ OnlyOps(patch) /\ Len(patch.layout_patch) > 0
            /\ UnknownRef(patch.layout_patch[1], prev.components))
           => out = applyPatch(prev, [patch EXCEPT !.layout_patch = Tail(@)])
        /\ (ValidScreen(prev) /\ OnlyDeletes(patch)
            /\ Range(patch.delete_components) \cap DOMAIN prev.components = {})
           => out = prev
        /\ (OnlyOps(patch) /\ Len(patch.layout_patch) = 1 /\ patch.layout_patch[1].op = "set")
           => out.layout = Slice0(DistinctValid(patch.layout_patch[1].layout, prev.components),
                                  LayoutMax)

\* C8: a Patch of upserts only, or of deletes only, applied twice gives the
\* state it gives applied once.
C8_UpsertDeleteIdempotent ==
    (pc = "twice" /\ (OnlyUpserts(patch) \/ OnlyDeletes(patch))) => out2 = out

C8_Witness ==
    /\ pc = "twice"
    /\ OnlyUpserts(patch)
    /\ \E i \in 1..Len(patch.upsert_components) :
          patch.upsert_components[i].id \notin DOMAIN prev.components
    /\ out # prev
    /\ out2 = out

\* the ids a Patch upserts that prev does not hold, in order of first upsert
NewIds(pv, p) ==
    LET ids == [i \in 1..Len(p.upsert_components) |-> p.upsert_components[i].id]
    IN SelectSeq(uniqKeepOrder(ids), LAMBDA id : id \notin DOMAIN pv.components)

NoOpsNewUpserts == ValidScreen(prev) /\ patch.layout_patch = <<>> /\ NewIds(prev, patch) # <<>>

\* C9 as stated: the id a Patch without layout op newly upserts is in the
\* resulting layout and is its last entry (read for a Patch with one new id
\* and no delete).
C9_NewIdIsLastEntry ==
    (Applied /\ NoOpsNewUpserts /\ Len(NewIds(prev, patch)) = 1
     /\ patch.delete_components = <<>>) =>
        /\ NewIds(prev, patch)[1] \in Range(out.layout)
        /\ out.layout # <<>>
        /\ out.layout[Len(out.layout)] = NewIds(prev, patch)[1]

\* C9 amended: for a valid prior Screen and a Patch without layout op that does
\* not delete the ids it newly upserts, the resulting layout is prev's layout
\* without the deleted ids, followed by the new ids in order of first upsert,
\* cut to 200 entries; so one new id is the last entry when there is room.
C9_NewIdsAppendedInOrder ==
    (Applied /\ NoOpsNewUpserts
     /\ Range(NewIds(prev, patch)) \cap Range(patch.delete_components) = {}) =>
        /\ out.layout =
              Slice0(SelectSeq(prev.layout, LAMBDA id : id \notin Range(patch.delete_components))
                     \o NewIds(prev, patch), 200)
        /\ (Len(NewIds(prev, patch)) = 1 /\ Len(out.layout) < 200)
           => out.layout[Len(out.layout)] = NewIds(prev, patch)[1]

C9_Witness ==
    /\ Applied /\ NoOpsNewUpserts
    /\ Len(NewIds(prev, patch)) = 1
    /\ Len(prev.layout) > 0
    /\ Len(out.layout) = Len(prev.layout) + 1
    /\ out.layout[Len(out.layout)] = NewIds(prev, patch)[1]

SingleInsert ==
    /\ ValidScreen(prev) /\ OnlyOps(patch) /\ Len(patch.layout_patch) = 1
    /\ patch.layout_patch[1].op = "insert"
    /\ patch.layout_patch[1].component_id \in DOMAIN prev.components

Others(layout, id) == SelectSeq(layout, LAMBDA x : x # id)

InsertedAt(id, index) ==
    LET n == Len(Others(prev.layout, id))
    IN /\ Len(SelectSeq(out.layout, LAMBDA x : x = id)) = 1
       /\ out.layout[Min(index, n) + 1] = id
       /\ Others(out.layout, id) = Others(prev.layout, id)

\* C10 as stated: a single insert(id, index) of a stored id leaves id exactly
\* once in the layout, at position min(index, n), the other ids as they were.
C10_InsertAsMove ==
    (Applied /\ SingleInsert) =>
        InsertedAt(patch.layout_patch[1].component_id, patch.layout_patch[1].index.v)

\* C10 amended: the same, for a valid prior Screen whose layout holds fewer
\* than 200 ids other than id.
C10_InsertAsMoveBelowLimit ==
    (Applied /\ SingleInsert
     /\ Len(Others(prev.layout, patch.layout_patch[1].component_id)) < 200) =>
        InsertedAt(patch.layout_patch[1].component_id, patch.layout_patch[1].index.v)

C10_Witness ==
    /\ Applied /\ SingleInsert
    /\ patch.layout_patch[1].component_id \in Range(prev.layout)
    /\ Len(prev.layout) = 3
    /\ out.layout # prev.layout
    /\ patch.layout_patch[1].index.v = 9999
    /\ out.layout[3] = patch.layout_patch[1].component_id

SingleMove ==
    /\ ValidScreen(prev) /\ OnlyOps(patch) /\ Len(patch.layout_patch) = 1
    /\ patch.layout_patch[1].op = "move"

\* C11: move never inserts: a single move(id, to_index) on a valid Screen leaves
\* the layout as it was when id is not stored or not placed; otherwise id is in
\* the layout exactly once, at position min(to_index, n), n the number of other
\* ids, and the other ids keep their order.
C11_MoveNeverInserts ==
    (Applied /\ SingleMove) =>
        LET id == patch.layout_patch[1].component_id
            to == patch.layout_patch[1].to_index.v
        IN IF id \notin DOMAIN prev.components \/ id \notin Range(prev.layout)
           THEN out.layout = prev.layout
           ELSE InsertedAt(id, to)

C11_Witness ==
    /\ Applied /\ SingleMove
    /\ prev.layout = <<idA, idB, idCtor>>
    /\ patch.layout_patch[1] = [op |-> "move", component_id |-> idA, to_index |-> Num(2)]
    /\ out.layout = <<idB, idCtor, idA>>

SingleSet ==
    /\ OnlyOps(patch) /\ Len(patch.layout_patch) = 1
    /\ patch.layout_patch[1].op = "set"

SetList == patch.layout_patch[1].layout

NoRepeat(seq) == \A i, j \in 1..Len(seq) : seq[i] = seq[j] => i = j

\* C12: a single set(L) gives the layout L without exactly the ids that are not
\* keys of components, the others in the order of L (read for a list L without
\* repeated ids and within the layout limit).
C12_SetDropsExactlyUnknownIds ==
    (Applied /\ SingleSet /\ NoRepeat(SetList) /\ Len(SetList) <= LayoutMax) =>
        out.layout = SelectSeq(SetList, LAMBDA id : id \in DOMAIN out.components)

\* C13: a single set(L) of more than 200 distinct ids, all of them keys of
\* components, gives a layout of exactly 200 entries: the first 200 ids of L in
\* the order of L.
C13_SetOverflowTruncated ==
    (Applied /\ SingleSet /\ NoRepeat(SetList) /\ Len(SetList) > 200
     /\ Range(SetList) \subseteq DOMAIN prev.components) =>
        /\ Len(out.layout) = 200
        /\ out.layout = SubSeq(SetList, 1, 200)

C13_Witness ==
    /\ Applied /\ SingleSet
    /\ Len(SetList) = 250
    /\ Range(SetList) \subseteq DOMAIN prev.components
    /\ prev.layout # <<>>
    /\ Len(out.layout) = 200
    /\ out.layout[1] = SetList[1]
    /\ out.layout[200] = SetList[200]

\* C14: a Patch of deletes only, on a valid Screen: no deleted id has a
\* components entry or a place in the layout; every other component is as it
\* was and the other layout ids keep their order.
C14_DeleteRemovesEntryAndPlacement ==
    (Applied /\ ValidScreen(prev) /\ OnlyDeletes(patch)) =>
        LET D == Range(patch.delete_components)
        IN /\ DOMAIN out.components = DOMAIN prev.components \ D
           /\ \A k \in DOMAIN out.components : out.components[k] = prev.components[k]
           /\ Range(out.layout) \cap D = {}
           /\ out.layout = SelectSeq(prev.layout, LAMBDA id : id \notin D)

C14_Witness ==
    /\ Applied /\ OnlyDeletes(patch)
    /\ prev.layout = <<idA, idB, idCtor>>
    /\ patch.delete_components = <<idB>>
    /\ out.layout = <<idA, idCtor>>
    /\ DOMAIN out.components = {idA, idCtor}

(***************************************************************************)
(* Claims about the streaming turn                                         *)
(***************************************************************************)
ScreenOrEmpty(o) == IF o = None THEN emptyScreen ELSE o[1]

\* the number of patch events in a sequence of events
PatchesIn(events) == Len(SelectSeq(events, LAMBDA e : e.event = "patch"))

LastOf(seq) == seq[Len(seq)]

\* C15: once the client has handled a final event, its Screen at the end of the
\* stream is the snapshot of that event, whatever events came before or after.
C15_FinalSnapshotAuthoritative ==
    (cliFinal # None /\ cliPhase \in {"ended", "failed"}) => cliScreen = cliFinal

InvalidFinalNext ==
    /\ cliPhase = "streaming" /\ stream # <<>>
    /\ Head(stream).event = "final"
    /\ ~screenStateSchema(Head(stream).screen)

\* C17 (client side): a final event whose Screen fails the schema check is not
\* a success: onFinal is not called, the Screen is not replaced, and the turn
\* ends with the error reported.
C17_InvalidFinalIsAnError ==
    [][(InvalidFinalNext /\ stream' # stream) =>
          /\ cliScreen' = cliScreen
          /\ cliFinal' = cliFinal
          /\ cliPhase' = "failed"
          /\ cliMessages' = Append(cliMessages, AssistantMessage("Error: ZodError: screen"))]_vars

C17_Witness ==
    /\ cliPhase = "failed"
    /\ cliApplied = 1
    /\ cliFinal = None
    /\ cliScreen # None
    /\ cliScreen[1].components # <<>>
    /\ LastOf(cliMessages).content = "Error: ZodError: screen"

\* C18: the schema check of a final Screen accepts it only if it satisfies the
\* four invariants (no dangling id, no duplicate id, at most 200 entries,
\* well-formed keys): every snapshot the client accepts is a valid Screen.
C18_SchemaChecksFourInvariants == cliFinal # None => ValidScreen(cliFinal[1])

\* C19: once handling an event has failed (an error event, or an exception in
\* a handler), the client handles no later event of the stream: the failing
\* event leaves the Screen as the patches before it made it and the error is
\* reported; after that nothing changes.
C19_NothingAfterError ==
    [][/\ (cliPhase = "streaming" /\ cliPhase' = "failed") =>
            /\ cliScreen' = cliScreen
            /\ Len(cliMessages') = Len(cliMessages) + 1
            /\ SubSeq(LastOf(cliMessages').content, 1, 7) = "Error: "
       /\ cliPhase = "failed" => UNCHANGED <<cliVars, stream>>]_vars

C19_Witness ==
    /\ cliPhase = "failed"
    /\ cliApplied = 1
    /\ cliScreen # None
    /\ LastOf(cliMessages).content = "Error: boom"
    /\ stream # <<>>
    /\ Head(stream).event \in {"patch", "final"}

TerminalsOf(events) == SelectSeq(events, Terminal)

\* C20: the first event emitted is ready; the patch events are those of the
\* accepted operations, one each, in the order of acceptance; at most one
\* terminal event is emitted, nothing after it, and the session is terminal
\* exactly when it has emitted it; the final summary is set at most once.
C20_EventOrder ==
    /\ [](/\ emitted # <<>> => emitted[1] = ReadyEvent
          /\ srvPhase \in {"streaming", "finalizing", "terminal"} => emitted # <<>>
          /\ SelectSeq(emitted, LAMBDA e : e.event = "patch")
                = [i \in 1..Len(accepted) |-> PatchEvent(accepted[i])]
          /\ Len(TerminalsOf(emitted)) <= 1
          /\ Len(TerminalsOf(emitted)) = 1 <=> srvPhase = "terminal"
          /\ Len(TerminalsOf(emitted)) = 1 => Terminal(LastOf(emitted)))
    /\ [][srvSummary # None => srvSummary' = srvSummary]_vars

C20_Witness ==
    /\ srvPhase = "terminal"
    /\ Len(accepted) = 2
    /\ accepted[1] # accepted[2]
    /\ Len(emitted) = 4
    /\ LastOf(emitted).event = "final"

(***************************************************************************)
(* Claims about the reducer, continued                                     *)
(***************************************************************************)
EmptyPatch == MkPatch(<<>>, <<>>, <<>>)

\* C21: the empty Patch is a no-op copy: for a prior Screen that satisfies the
\* four invariants, applyPatch(prev, empty Patch) equals prev in title,
\* globalCss, components and layout, and prev is left as it was.
C21_EmptyPatchIsNoOp ==
    (Applied /\ ValidScreen(prev) /\ patch = EmptyPatch) =>
        /\ out.title = prev.title
        /\ out.globalCss = prev.globalCss
        /\ out.components = prev.components
        /\ out.layout = prev.layout
        /\ prevAfter = prev

C21_Witness ==
    /\ Applied /\ ValidScreen(prev) /\ patch = EmptyPatch
    /\ prev.title = Some("Old title") /\ prev.globalCss = Some("body{}")
    /\ prev.layout = <<idA>>
    /\ out = prev

DirectOp == patch.layout_patch[1]
DirectId == DirectOp.component_id
DirectIndex == IF DirectOp.op = "insert" THEN DirectOp.index ELSE DirectOp.to_index

\* a single insert or move that takes effect: the id is stored, and for a
\* move it is placed
SinglePlacing ==
    /\ ValidScreen(prev) /\ OnlyOps(patch) /\ Len(patch.layout_patch) = 1
    /\ DirectOp.op \in {"insert", "move"}
    /\ DirectId \in DOMAIN prev.components
    /\ DirectOp.op = "move" => DirectId \in Range(prev.layout)
    /\ Len(Others(prev.layout, DirectId)) < LayoutMax

AtEnd == out.layout = Others(prev.layout, DirectId) \o <<DirectId>>
AtFront == out.layout = <<DirectId>> \o Others(prev.layout, DirectId)
Finite(x) == x.t = "num"

\* C22 as stated: for insert and move, an index that is negative, NaN or
\* non-finite, or at or above the length, places the id at the end of the layout.
C22_OutOfRangeIndexAppends ==
    (Applied /\ SinglePlacing
     /\ (~Finite(DirectIndex) \/ DirectIndex.v < 0
         \/ DirectIndex.v >= Len(Others(prev.layout, DirectId)))) => AtEnd

\* C22 amended: a NaN or infinite index and an index at or above the length
\* place the id at the end, a negative finite index places it at the front,
\* and every index value gives a result (the id once in the layout, the other
\* ids as they were).
C22_IndexClamped ==
    (Applied /\ SinglePlacing) =>
        /\ (~Finite(DirectIndex) \/ DirectIndex.v >= Len(Others(prev.layout, DirectId))) => AtEnd
        /\ (Finite(DirectIndex) /\ DirectIndex.v < 0) => AtFront
        /\ Len(SelectSeq(out.layout, LAMBDA x : x = DirectId)) = 1
        /\ Others(out.layout, DirectId) = Others(prev.layout, DirectId)

C22_Witness ==
    /\ Applied /\ SinglePlacing
    /\ prev.layout = <<idA, idB, idCtor>>
    /\ DirectOp = [op |-> "move", component_id |-> idB, to_index |-> Num(-1)]
    /\ out.layout = <<idB, idA, idCtor>>

\* C23: title and globalCss are overwrite-if-present: the result carries the
\* Patch's value when the Patch has one (the empty string included) and prev's
\* value otherwise, whatever else the Patch holds.
C23_OverwriteIfPresent ==
    Applied =>
        /\ out.title = (IF patch.title # None THEN patch.title ELSE prev.title)
        /\ out.globalCss = (IF patch.globalCss # None THEN patch.globalCss ELSE prev.globalCss)

C23_Witness ==
    /\ Applied
    /\ prev.title = Some("Old title") /\ prev.globalCss = Some("body{}")
    /\ patch.title = None /\ patch.globalCss = Some("")
    /\ Len(patch.upsert_components) = 1
    /\ out.title = Some("Old title") /\ out.globalCss = Some("")

InsertOf(id, x) == MkPatch(<<>>, <<>>, <<[op |-> "insert", component_id |-> id, index |-> x]>>)

UpsertedIds(p) == {p.upsert_components[i].id : i \in 1..Len(p.upsert_components)}
DeletedIds(p) == Range(p.delete_components)
WithoutOps(p) == [p EXCEPT !.layout_patch = <<>>]

\* C30: the order within one Patch is upserts, deletes, layout ops: an id the
\* Patch both upserts and deletes is neither stored nor placed in the result,
\* an insert or move of that id in the same Patch changes nothing, and an
\* insert of an id that the Patch upserts and does not delete places the id.
C30_UpsertsThenDeletesThenOps ==
    (Applied /\ ValidScreen(prev) /\ Len(prev.layout) < LayoutMax) =>
        /\ \A id \in UpsertedIds(patch) \cap DeletedIds(patch) :
              /\ id \notin DOMAIN out.components
              /\ id \notin Range(out.layout)
              /\ (Len(patch.layout_patch) = 1 /\ DirectOp.op \in {"insert", "move"}
                  /\ DirectId = id) => out = applyPatch(prev, WithoutOps(patch))
        /\ (Len(patch.layout_patch) = 1 /\ DirectOp.op = "insert"
            /\ DirectId \in UpsertedIds(patch) \ DeletedIds(patch)) =>
              LET kept == SelectSeq(prev.layout, LAMBDA x : x \notin DeletedIds(patch))
                  n == Len(Others(kept, DirectId))
              IN /\ DirectId \in DOMAIN out.components
                 /\ out.layout[Min(DirectOp.index.v, n) + 1] = DirectId

(***************************************************************************)
(* Claims about the JSON route                                             *)
(***************************************************************************)
RouteDone == route.pc = "done"
BodyRejected ==
    route.body # None /\ (route.body[1] = NotJsonBody \/ ~generateRequestSchema(route.body[1]))
UpstreamFailed == route.upstream # None /\ route.upstream[1].kind # "text"
ModelJson ==
    IF route.upstream # None /\ route.upstream[1].kind = "text"
    THEN JsonParse(extractJson(route.upstream[1].text)) ELSE None
ModelOutputAccepted == ModelJson # None /\ agentResponseSchema(ModelJson[1])

\* C25: every request gets exactly one response: 500 when the credentials are
\* missing; 400 when the body is not JSON or fails the request schema (with
\* validation details in the second case); 502 when the upstream call fails or
\* the model output is not JSON or fails the agent response schema; success
\* (200) exactly when the model output passes the agent response schema.
C25_OutcomeClassification ==
    route.pc # "off" =>
        /\ Len(route.responses) = (IF RouteDone THEN 1 ELSE 0)
        /\ ~RouteDone => route.pc \in {"start", "body", "generate", "answer"}
        /\ RouteDone =>
            LET r == route.responses[1]
            IN /\ r.status \in {200, 400, 500, 502}
               /\ r.status = 500 <=> ~route.apiKey
               /\ r.status = 400 <=> (route.apiKey /\ BodyRejected)
               /\ (r.status = 400 /\ route.body[1] # NotJsonBody) =>
                     (r.details # None /\ r.details[1] = RequestErrorFlatten(route.body[1]))
               /\ r.status = 502 <=>
                     (route.apiKey /\ ~BodyRejected /\ (UpstreamFailed \/ ~ModelOutputAccepted))
               /\ r.status = 200 <=>
                     (route.apiKey /\ ~BodyRejected /\ ModelOutputAccepted)
               /\ r.status = 200 => (r.data # None /\ agentResponseSchema(r.data[1]))

C25_Witness ==
    /\ RouteDone
    /\ route.upstream # None
    /\ route.upstream[1].kind = "text"
    /\ Len(route.upstream[1].text) = 3
    /\ route.upstream[1].text[1] = FenceJson
    /\ route.upstream[1].text[3] = FencePlain
    /\ route.responses[1].status = 200
    /\ route.responses[1].data[1].action = Some("patch")

BadPatchNext ==
    /\ cliPhase = "streaming" /\ stream # <<>>
    /\ Head(stream).event = "patch"
    /\ ~patchSchema(Head(stream).patch)

\* C26: malformed input is rejected before any state mutation: a patch event
\* whose payload fails the Patch schema leaves the client's Screen as it was
\* and ends the turn with an error; a request whose body fails the request
\* schema is answered (400) without the model being called.
C26_RejectedBeforeMutation ==
    /\ [][(BadPatchNext /\ stream' # stream) =>
            /\ cliScreen' = cliScreen
            /\ cliApplied' = cliApplied
            /\ cliPhase' = "failed"
            /\ cliMessages' = Append(cliMessages, AssistantMessage("Error: " \o PatchZodError))]_vars
    /\ []((route.pc # "off" /\ BodyRejected) =>
            /\ route.calls = 0
            /\ route.upstream = None
            /\ RouteDone
            /\ route.responses[1].status = 400)

C26_Witness ==
    /\ cliPhase = "failed"
    /\ cliApplied = 1
    /\ cliScreen = Some(applyPatch(emptyScreen, MkPatch(<<Entry(idA, Hero)>>, <<>>, <<>>)))
    /\ cliMessages = <<AssistantMessage("Error: " \o PatchZodError)>>
    /\ Len(stream) = 1

(***************************************************************************)
(* Claims about the preview documents                                      *)
(***************************************************************************)
\* the markup holds the start tag of a script element
HasScriptElement(m) ==
    \E i \in 1..Len(m) :
        /\ StartsWithAt(m, i, "<script")
        /\ i + 7 <= Len(m)
        /\ At(m, i + 7) \in {">", "/", " ", "\n", "\t"}

\* the markup holds a start tag with an attribute whose name begins with on
HasHandlerAttribute(m) ==
    \E i \in 1..Len(m) :
        /\ At(m, i) = "<"
        /\ i + 1 <= Len(m) /\ IsLetter(At(m, i + 1))
        /\ LET tagEnd == FirstNot(m, i, LAMBDA c : c # ">")
           IN \E j \in (i + 2)..(tagEnd - 1) :
                 /\ At(m, j) \in {" ", "\n", "\t", "/", "\"", "'"}
                 /\ StartsWithAt(m, j + 1, "on")
                 /\ LET afterName == FirstNot(m, j + 3, IsLetter)
                        eq == FirstNot(m, afterName, IsSpace)
                    IN afterName > j + 3 /\ eq < tagEnd /\ At(m, eq) = "="

\* C29: the markup that renderScreenSrcDoc / renderComponentSrcDoc place in
\* the preview document from component html holds no script element and no
\* inline on*= handler attribute.
C29_NoScriptNoHandler ==
    render.pc = "done" =>
        /\ ~HasScriptElement(render.doc[1].bodyInner)
        /\ ~HasHandlerAttribute(render.doc[1].bodyInner)

(***************************************************************************)
(* Claims about the page                                                   *)
(***************************************************************************)
InFlight == {i \in DOMAIN page.turns : page.turns[i].reading}

\* C27: single writer: whatever the order of Submit, Reset and stream events,
\* at most one turn is in flight and applying patch/final events to the
\* Screen (a Submit while a turn is streaming starts no second one).
C27_SingleWriter == page.pc = "on" => Cardinality(InFlight) <= 1

\* C28: after Reset the message history is empty and the Screen is cleared,
\* and both stay so until the next Submit, whatever events of a turn that was
\* in flight arrive in between.
C28_ResetClears ==
    (page.pc = "on" /\ page.cleared) => (page.messages = <<>> /\ page.screen = None)

(***************************************************************************)
(* Claims about the reducer, third part                                    *)
(***************************************************************************)
KeptLayout(pv, p) == SelectSeq(pv.layout, LAMBDA x : x \notin DeletedIds(p))

\* the ids a layout op names
OpIds(op) == IF op.op = "set" THEN Range(op.layout) ELSE {op.component_id}

OpsIds(p) == UNION {OpIds(p.layout_patch[i]) : i \in 1..Len(p.layout_patch)}

WithoutUpserts(p) == [p EXCEPT !.upsert_components = <<>>]

AutoAppendOrder ==
    LET new == NewIds(prev, patch)
        kept == KeptLayout(prev, patch)
    IN /\ Range(new) \cap OpsIds(patch) = {} =>
             out.layout = applyPatch(prev, WithoutUpserts(patch)).layout \o new
       /\ (Len(patch.layout_patch) = 1 /\ DirectOp.op = "insert"
           /\ DirectId \in Range(new)) =>
             LET i == Min(DirectOp.index.v, Len(kept))
             IN out.layout = SubSeq(kept, 1, i) \o <<DirectId>>
                               \o SubSeq(kept, i + 1, Len(kept))
                               \o SelectSeq(new, LAMBDA x : x # DirectId)

\* C31 as stated: for every valid prior Screen and every Patch that does not
\* delete what it upserts, the new ids that no layout op names come after
\* every entry placed before, in the order of their first upsert entry, and a
\* new id placed by an insert of the Patch keeps that position.
C31_AutoAppendAlways ==
    (Applied /\ ValidScreen(prev)
     /\ UpsertedIds(patch) \cap DeletedIds(patch) = {}) => AutoAppendOrder

\* C31 amended: auto-append ordering: the ids a Patch upserts that prev did not store
\* and that no layout op of the Patch names come after every entry the rest of
\* the Patch leaves placed, in the order of their first upsert entry; a new id
\* that an insert of the same Patch placed stays where the insert put it and is
\* not appended again (results below the 200-entry limit, where nothing is cut).
C31_AutoAppendOrder ==
    (Applied /\ ValidScreen(prev)
     /\ UpsertedIds(patch) \cap DeletedIds(patch) = {}
     /\ Len(out.layout) < LayoutMax) => AutoAppendOrder

\* two new ids appended in upsert order behind a placed one, and a new id kept
\* at the front by its insert
C31_Witness ==
    /\ Applied /\ ValidScreen(prev)
    /\ prev.layout = <<idCtor>>
    /\ Len(patch.upsert_components) = 2
    /\ patch.upsert_components[1].id = idB /\ patch.upsert_components[2].id = idA
    /\ patch.delete_components = <<>>
    /\ Len(patch.layout_patch) = 1 /\ DirectOp.op = "insert"
    /\ DirectId = idA /\ DirectOp.index.v = 0
    /\ out.layout = <<idA, idCtor, idB>>

LastOp == patch.layout_patch[Len(patch.layout_patch)]

LastOpIs(kind) == Len(patch.layout_patch) > 0 /\ LastOp.op = kind

OnlyRemove == OnlyOps(patch) /\ Len(patch.layout_patch) = 1 /\ DirectOp.op = "remove"

RemoveKeepsTheRest ==
    (Applied /\ ValidScreen(prev) /\ OnlyRemove) =>
        /\ out.components = prev.components
        /\ out.title = prev.title /\ out.globalCss = prev.globalCss
        /\ out.layout = Others(prev.layout, DirectId)

\* C32 as stated: after any Patch whose last layout op is remove(id), id is
\* not in the resulting layout; a Patch that is only remove(id) leaves
\* components, title and globalCss as in prev and the other layout ids in
\* their order.
C32_RemovedIdNeverPlaced ==
    /\ (Applied /\ ValidScreen(prev) /\ LastOpIs("remove")) =>
           LastOp.component_id \notin Range(out.layout)
    /\ RemoveKeepsTheRest

\* C32 amended: after a Patch whose last layout op is remove(id), id is not in
\* the resulting layout unless the Patch upserts id and prev did not store it
\* (the auto-append then places it again; it is the last entry when the Patch
\* has no other new id and the layout is below the limit); the second half as
\* stated.
C32_RemovedIdPlacedOnlyIfNew ==
    /\ (Applied /\ ValidScreen(prev) /\ LastOpIs("remove")) =>
           /\ LastOp.component_id \notin Range(NewIds(prev, patch))
                 => LastOp.component_id \notin Range(out.layout)
           /\ (NewIds(prev, patch) = <<LastOp.component_id>>
               /\ patch.delete_components = <<>>
               /\ Len(out.layout) < LayoutMax)
                 => /\ out.layout # <<>>
                    /\ out.layout[Len(out.layout)] = LastOp.component_id
    /\ RemoveKeepsTheRest

\* a placed id removed by the last of two ops, the two others kept
C32_Witness ==
    /\ Applied /\ ValidScreen(prev)
    /\ OnlyOps(patch) /\ Len(patch.layout_patch) = 2 /\ LastOpIs("remove")
    /\ LastOp.component_id \in Range(prev.layout)
    /\ Len(prev.layout) = 3 /\ Len(out.layout) = 2
    /\ LastOp.component_id \notin Range(out.layout)

\* C33 as stated: after any Patch whose last layout op is set(L), every id of
\* the resulting layout is listed in L, also when the Patch upserts new ids.
C33_SetListBoundsLayout ==
    (Applied /\ ValidScreen(prev) /\ LastOpIs("set")) =>
        Range(out.layout) \subseteq Range(LastOp.layout)

\* C33 amended: after a Patch whose last layout op is set(L), every id of the
\* resulting layout is listed in L or is an id the Patch upserts that prev did
\* not store, and the ids outside L come behind all ids of L.
C33_SetListAndNewIds ==
    (Applied /\ ValidScreen(prev) /\ LastOpIs("set")) =>
        LET listed == SelectSeq(out.layout, LAMBDA x : x \in Range(LastOp.layout))
            extra == SelectSeq(out.layout, LAMBDA x : x \notin Range(LastOp.layout))
        IN /\ Range(extra) \subseteq Range(NewIds(prev, patch))
           /\ out.layout = listed \o extra

\* a set that drops a placed id and brings the two listed ones in its order
C33_Witness ==
    /\ Applied /\ ValidScreen(prev) /\ LastOpIs("set")
    /\ Len(LastOp.layout) = 2
    /\ out.layout = LastOp.layout
    /\ out.layout # prev.layout
    /\ ~(Range(prev.layout) \subseteq Range(LastOp.layout))

\* the single-op Patches of the layout ops, applied one after another
RECURSIVE FoldOps(_, _, _)
FoldOps(screen, ops, i) ==
    IF i > Len(ops) THEN screen
    ELSE FoldOps(applyPatch(screen, MkPatch(<<>>, <<>>, <<ops[i]>>)), ops, i + 1)

\* C34 as stated: a Patch with layout ops only gives the Screen that its
\* single-op Patches give when applied one after another from the same valid
\* prior Screen.
C34_MultiOpEqualsFold ==
    (Applied /\ ValidScreen(prev) /\ OnlyOps(patch)) =>
        out = FoldOps(prev, patch.layout_patch, 1)

OpsOfKind(kind) == SelectSeq(patch.layout_patch, LAMBDA op : op.op = kind)

\* no set list names an id twice
SetListsRepeatFree ==
    \A i \in 1..Len(patch.layout_patch) :
        patch.layout_patch[i].op = "set" => NoRepeat(patch.layout_patch[i].layout)

\* the longest a layout can get while the ops run
LongestLayout ==
    LET sets == OpsOfKind("set")
        lens == {Len(prev.layout)} \cup {Len(sets[i].layout) : i \in 1..Len(sets)}
    IN (CHOOSE n \in lens : \A k \in lens : k <= n) + Len(OpsOfKind("insert"))

\* C34 amended: the same, for Patches whose set lists name no id twice and
\* whose ops cannot make the layout longer than 200 entries on the way (the
\* cleaning of the layout runs once, after the last op, and not between ops).
C34_MultiOpEqualsFoldWhenClean ==
    (Applied /\ ValidScreen(prev) /\ OnlyOps(patch)
     /\ SetListsRepeatFree /\ LongestLayout <= LayoutMax) =>
        out = FoldOps(prev, patch.layout_patch, 1)

\* two ops that both change the layout
C34_Witness ==
    /\ Applied /\ ValidScreen(prev) /\ OnlyOps(patch)
    /\ SetListsRepeatFree /\ LongestLayout <= LayoutMax
    /\ Len(patch.layout_patch) = 2
    /\ applyPatch(prev, MkPatch(<<>>, <<>>, <<patch.layout_patch[1]>>)) \notin {prev, out}
    /\ out # prev
    /\ out = FoldOps(prev, patch.layout_patch, 1)

\* a Patch of one operation: one upsert, one delete or one layout op
SingleOperation(p) ==
    Len(p.upsert_components) + Len(p.delete_components) + Len(p.layout_patch) = 1

\* C35: a stream patch delivered twice is harmless: for every valid Screen and
\* every Patch of one operation, applying the Patch a second time to the
\* result of the first gives that result again.
C35_DuplicateDeliveryHarmless ==
    (pc = "twice" /\ ValidScreen(prev) /\ SingleOperation(patch)) => out2 = out

\* a move that changed the layout, delivered twice
C35_Witness ==
    /\ pc = "twice" /\ ValidScreen(prev) /\ SingleOperation(patch)
    /\ Len(patch.layout_patch) = 1 /\ DirectOp.op = "move"
    /\ out.layout # prev.layout
    /\ out2 = out

\* the last upsert entry of a Patch for an id
LastEntryFor(p, id) ==
    LET at == {i \in 1..Len(p.upsert_components) : p.upsert_components[i].id = id}
    IN p.upsert_components[CHOOSE i \in at : \A j \in at : j <= i]

UpdatesOnly ==
    /\ ValidScreen(prev) /\ OnlyUpserts(patch)
    /\ UpsertedIds(patch) \subseteq DOMAIN prev.components

\* C36: updating stored components does not touch the layout: a Patch that
\* only upserts ids prev stores leaves the layout as it was (an unplaced id
\* stays unplaced), keeps the stored ids, changes no component but the
\* upserted ones, and gives each of these the name and html of its last entry.
C36_UpdateLeavesLayout ==
    (Applied /\ UpdatesOnly) =>
        /\ out.layout = prev.layout
        /\ DOMAIN out.components = DOMAIN prev.components
        /\ \A id \in DOMAIN prev.components :
              IF id \in UpsertedIds(patch)
              THEN /\ out.components[id].name = LastEntryFor(patch, id).name
                   /\ out.components[id].html = LastEntryFor(patch, id).html
              ELSE out.components[id] = prev.components[id]

\* an unplaced component updated twice in one Patch
C36_Witness ==
    /\ Applied /\ UpdatesOnly
    /\ Len(patch.upsert_components) = 2
    /\ patch.upsert_components[1].id = idA /\ patch.upsert_components[2].id = idA
    /\ patch.upsert_components[1].name # patch.upsert_components[2].name
    /\ idA \notin Range(prev.layout) /\ prev.layout # <<>>
    /\ out.components[idA].name = patch.upsert_components[2].name
    /\ idA \notin Range(out.layout)

(***************************************************************************)
(* Claims about the client and the turn, second part                       *)
(***************************************************************************)
\* C37: the client's Screen is always valid: whatever patch and final events
\* the client has accepted, its Screen, when it has one, satisfies the four
\* invariants of the data model.
C37_ClientScreenValid == cliScreen # None => ValidScreen(cliScreen[1])

\* onSubmit has run its finally: setLoading(false)
TurnOver == cliPhase \in {"ended", "failed"}

IsErrorMessage(m) == Len(m.content) >= 7 /\ SubSeq(m.content, 1, 7) = "Error: "

\* the one assistant message of a turn: on failure an "Error: ..." message, on
\* success the message the final handler makes of the summary (the summary
\* trimmed, the handler's placeholder when it is blank)
OneAssistantMessage ==
    /\ Len(cliMessages) = 1
    /\ cliMessages[1].role = "assistant"
    /\ IF cliPhase = "failed" THEN IsErrorMessage(cliMessages[1])
       ELSE /\ srvSummary # None
            /\ cliMessages[1].content = TrimmedOr(srvSummary, "Updated screen components.")

\* C38: every turn terminates: under fair scheduling the session reaches a
\* terminal event, having accepted at most 25 structural operations, and the
\* client's turn ends (loading false) with exactly one assistant message in
\* the history: the summary of the final event, or an "Error: ..." message.
C38_EveryTurnTerminates ==
    /\ [](Len(accepted) <= StepBudget)
    /\ <>(srvPhase = "terminal" /\ emitted # <<>> /\ Terminal(emitted[Len(emitted)]))
    /\ <>[]TurnOver
    /\ [](TurnOver => OneAssistantMessage)

\* a turn ended by its budget and read to its end by the client
C38_Witness ==
    /\ srvPhase = "terminal" /\ Len(accepted) = StepBudget
    /\ cliPhase = "ended" /\ cliApplied = StepBudget
    /\ OneAssistantMessage

\* C39: reading is independent of the chunk boundaries: whatever chunks a body
\* arrives in, the records handed to the handler are the records of the body
\* parsed at once, in the same order, and the same unfinished end is left.
C39_ChunkingIndependent ==
    sse.pc = "done" =>
        /\ sse.events = parseSseEvents(sse.text).events
        /\ sse.buffer = parseSseEvents(sse.text).rest

\* a record read from three chunks, one cut inside "event:", one inside the
\* blank line
C39_Witness ==
    /\ sse.pc = "done"
    /\ sse.fed = <<"eve", "nt:a\ndata:1\n", "\n">>
    /\ sse.events = <<[event |-> "a", data |-> "1"]>>
    /\ sse.buffer = ""
====
